---- MODULE Spec2Model ----
(***************************************************************************)
(* Session lifecycle and routing core of the Slack <-> Claude Code bridge. *)
(*                                                                         *)
(* The bridge (bridge.js, multi-session version) is one Node.js process:   *)
(* its message handlers are async functions that run to their next await,  *)
(* its sweeps are synchronous timer callbacks.  The notify hook            *)
(* (slack-notify.sh) and the local launcher (slack-claude.sh) are other    *)
(* processes that read and write the same registry file, and tmux windows  *)
(* can die at any time.                                                    *)
(***************************************************************************)
EXTENDS Integers, Sequences, FiniteSets, TLC

\* ------------------------------------------------------------------------
\* Bounds of the model
\* ------------------------------------------------------------------------
NThreads == 2   \* chat threads (thread_ts values)
MaxMsgs == 2    \* inbound messages delivered to handleMessage
MaxWin == 3     \* tmux windows ever created
MaxLocal == 1   \* runs of the local launcher slack-claude.sh

Threads == 1..NThreads
Msgs == 1..MaxMsgs
Wins == 1..MaxWin

\* config.multiSession.maxConcurrent as written in config.json
ConfigMax == {0, 1}
DefaultMaxConcurrent == 5

\* process.env.HOME (also the default working directory), and the directories
\* a `[path]` prefix or the launcher's argument can name
HOME == "~"
Dirs == {"/x"}

\* ------------------------------------------------------------------------
\* Window names and registry records
\* ------------------------------------------------------------------------
MkName(k, n) == [kind |-> k, n |-> n]
NoName == MkName("none", 0)          \* undefined window field
NewName(n) == MkName("new", n)       \* `new-${n}`
SidName(id) == MkName("sid", id)     \* first 8 characters of assistant UUID id
IsProvisional(name) == name.kind = "new"

\* A registry entry.  status "absent": no entry under the key;
\* status "undef": an entry without a status field (made by jq on a missing key)
Absent == [window |-> NoName, sessionId |-> 0, status |-> "absent",
           workingDir |-> "none", created_at |-> 0]
EmptyRegistry == [t \in Threads |-> Absent]

NonTerminated(s) == s.status \notin {"absent", "terminated"}
NeedsCreation(s) == s.status \in {"absent", "terminated"}
ActiveCount(sessions) == Cardinality({t \in Threads : NonTerminated(sessions[t])})

\* loadConfig: `maxConcurrent || 5`
LoadMaxConcurrent(c) == IF c = 0 THEN DefaultMaxConcurrent ELSE c

\* ------------------------------------------------------------------------
\* State
\* ------------------------------------------------------------------------
VARIABLES
  maxConcurrent,    \* config.multiSession.maxConcurrent after loadConfig
  registry,         \* /tmp/claude-slack-sessions.json : thread -> entry
  windows,          \* tmux windows by tmux id
  windowIndex,      \* bridge's counter for provisional names
  creatingSession,  \* threads with an in-flight creation promise
  hs,               \* one handleMessage call per inbound message
  nextMsg,          \* next inbound message to arrive
  task,             \* synchronous bridge callback in progress (crash sweep)
  started,          \* threads whose root message has been delivered
  posts,            \* notices posted to chat: <<thread, kind>>
  sent,             \* texts sent to windows, in order: <<message, window>>
  configMax         \* config.multiSession.maxConcurrent as config.json has it

\* The idle timeout is studied on its own, with a wall clock
\* (section "Idle timeout" below)
VARIABLES
  clock,            \* Date.now(), in minutes
  idleReg,          \* the registry file: thread -> [status, idle_since]
  idleWin,          \* threads whose tmux window exists
  idleHs,           \* the handleMessage call in progress
  idleTask          \* the idle sweep in progress

\* Authorization of the event handlers (section "Authorization" below)
VARIABLES
  allowedUsers,     \* config.allowedUsers
  handled           \* events seen so far: <<kind, user, what the handler did>>

\* Start and exit of bridge processes (section "Instance lock" below)
VARIABLES
  lockFile,         \* /tmp/claude-slack-bridge-<hash>.lock: the PID in it, 0 = no file
  bridges           \* bridge processes with the same bot token, by PID

\* The stop reaction (section "Stop reaction" below)
VARIABLES
  stopReg,          \* the registry file: thread -> status
  stopWin,          \* threads whose tmux window exists
  stopSeen,         \* stop reactions delivered, per thread
  stopPosts         \* termination confirmations posted, per thread

\* Answers to a permission prompt (section "Pending permission" below)
VARIABLES
  permReg,          \* pendingPermission of the session in the registry file
  permHs,           \* the handleMessage call in progress
  permSent          \* the last call of sendToWindow: <<message text, text sent>>

\* Echo suppression (section "Pending hash" below)
VARIABLES
  pendingFile,      \* /tmp/claude-slack-pending-<thread>: a hash, or NoFile
  typed,            \* inputs in the window not yet submitted: <<origin, text>>
  nInjected,        \* inputs injected by the bridge so far
  localInput        \* prompts posted to the thread as local input

\* The wait for the assistant of a new session (section "Readiness" below)
VARIABLES
  pane,             \* markers in the window's pane: subset of {"trust", "ready"}
  elapsed,          \* Date.now() - startTime of waitForClaudeReady, in ms
  readyHs           \* the handleMessage call of the first inbound

\* Attachments of an inbound (section "Attachments" below)
VARIABLES
  attHs,            \* the handleMessage call in progress
  attSent           \* what sendToWindow has typed: paths, then the text

\* Reactions (section "Reactions" below)
VARIABLES
  reactReg,         \* the registry file: thread -> status
  reactWin,         \* threads whose tmux window exists
  reactKeys,        \* send-keys commands run: <<thread of the window, keys>>
  reactPosts,       \* confirmations posted: threads
  reactEvents       \* reaction_added events delivered so far

\* Bot commands in direct messages (section "Bot commands" below)
VARIABLES
  cmdReg,           \* the registry file: thread -> status
  cmdPosts,         \* replies of the bridge: <<thread, kind>>
  cmdInjected,      \* texts typed into a session's window: <<thread, text>>
  cmdEvents         \* messages delivered to app.message so far

\* Start of the bridge (section "Startup" below)
VARIABLES
  startReg,         \* the registry file: thread -> status
  startWin,         \* threads whose session's window is in the tmux session
  startTask,        \* the startup function: position, loaded map, checks made
  startSeen         \* chat events handled and sweeps run since the start

\* Failing calls inside the sweeps (section "Sweep errors" below)
VARIABLES
  errReg,           \* the registry file: thread -> status
  errWin,           \* threads whose session's window exists
  errTask,          \* the timer callback in progress, or the exit of the process
  errRuns           \* sweeps started so far

\* Keystrokes of sendToWindow (section "Keystrokes" below)
VARIABLES
  sendHs,           \* the calls that type into one window: text, bursts left
  sendLog           \* what tmux delivered to the window: <<call, key>> in order

\* The trust auto-confirmation (section "Trust timer" below)
VARIABLES
  trustTimer        \* the setTimeout of createSession: armed, or where its key landed

\* One thread's inbounds from guard to injection (section "Inbound" below)
VARIABLES
  inReg,            \* the thread's registry record
  inHs,             \* one handleMessage call per inbound of the thread
  eyes,             \* the inbounds that carry the bridge's eyes reaction
  asst,             \* the assistant in the thread's window: idle, busy, prompt
  inHook            \* the notify hook run in progress

coreVars == <<maxConcurrent, registry, windows, windowIndex, creatingSession,
              hs, nextMsg, task, started, posts, sent, configMax>>
idleVars == <<clock, idleReg, idleWin, idleHs, idleTask>>
authVars == <<allowedUsers, handled>>
lockVars == <<lockFile, bridges>>
stopVars == <<stopReg, stopWin, stopSeen, stopPosts>>
permVars == <<permReg, permHs, permSent>>
hashVars == <<pendingFile, typed, nInjected, localInput>>
readyVars == <<pane, elapsed, readyHs>>
attVars == <<attHs, attSent>>
reactVars == <<reactReg, reactWin, reactKeys, reactPosts, reactEvents>>
cmdVars == <<cmdReg, cmdPosts, cmdInjected, cmdEvents>>
startVars == <<startReg, startWin, startTask, startSeen>>
errVars == <<errReg, errWin, errTask, errRuns>>
sendVars == <<sendHs, sendLog>>
trustVars == <<trustTimer>>
inVars == <<inReg, inHs, eyes, asst, inHook>>

\* the sections after "Readiness"
lastVars == <<sendVars, trustVars, inVars>>
laterVars == <<attVars, reactVars, cmdVars, startVars, errVars, lastVars>>

\* what the actions of the core leave alone
side == <<configMax, idleVars, authVars, lockVars, stopVars, permVars, hashVars,
          readyVars, laterVars>>

\* what the actions of each other section leave alone
idleRest == <<coreVars, authVars, lockVars, stopVars,
              permVars, hashVars, readyVars, laterVars>>
authRest == <<coreVars, idleVars, lockVars, stopVars,
              permVars, hashVars, readyVars, laterVars>>
lockRest == <<coreVars, idleVars, authVars, stopVars,
              permVars, hashVars, readyVars, laterVars>>
stopRest == <<coreVars, idleVars, authVars, lockVars,
              permVars, hashVars, readyVars, laterVars>>
permRest == <<coreVars, idleVars, authVars, lockVars,
              stopVars, hashVars, readyVars, laterVars>>
hashRest == <<coreVars, idleVars, authVars, lockVars,
              stopVars, permVars, readyVars, laterVars>>
readyRest == <<coreVars, idleVars, authVars, lockVars,
               stopVars, permVars, hashVars, laterVars>>

earlierVars == <<coreVars, idleVars, authVars, lockVars, stopVars, permVars,
                 hashVars, readyVars>>
attRest == <<earlierVars, reactVars, cmdVars, startVars, errVars, lastVars>>
reactRest == <<coreVars, idleVars, lockVars, stopVars, permVars, hashVars,
               readyVars, attVars, handled, cmdVars, startVars, errVars,
               lastVars>>
cmdRest == <<earlierVars, attVars, reactVars, startVars, errVars, lastVars>>
startRest == <<earlierVars, attVars, reactVars, cmdVars, errVars, lastVars>>
errRest == <<earlierVars, attVars, reactVars, cmdVars, startVars, lastVars>>
midVars == <<attVars, reactVars, cmdVars, startVars, errVars>>
sendRest == <<earlierVars, midVars, trustVars, inVars>>
trustRest == <<coreVars, idleVars, authVars, lockVars, stopVars, permVars,
               hashVars, midVars, sendVars, inVars>>
inRest == <<earlierVars, midVars, sendVars, trustVars>>

vars == <<coreVars, idleVars, authVars, lockVars, stopVars, permVars, hashVars,
          readyVars, laterVars>>

\* origin: "bridge" (createSession/resurrectSession, by handler `creator`),
\* "local" (slack-claude.sh) or "old" (there when the bridge started)
NoWindow == [alive |-> FALSE, name |-> NoName, thread |-> 0, resume |-> 0,
             dir |-> "none", asst |-> 0, busy |-> FALSE, responded |-> FALSE,
             hook |-> "none", hookThread |-> 0, origin |-> "none", creator |-> 0,
             died |-> FALSE]

NoHandler == [pc |-> "none", thread |-> 0, sessions |-> EmptyRegistry,
              isNew |-> FALSE, dir |-> "none", win |-> 0, resume |-> 0,
              waitedOn |-> 0, failed |-> FALSE, atLimit |-> FALSE]

NoTask == [kind |-> "none", sessions |-> EmptyRegistry]

\* What an earlier run of the bridge can have left for a thread: nothing, a
\* session that answered and is now terminated, or a session whose window is
\* still there.  The assistant id of thread t's old session is OldId(t).
OldKinds == {"absent", "terminated", "active"}
OldId(t) == MaxWin + t
OldEntry(t, k) ==
  IF k = "absent" THEN Absent
  ELSE [window |-> SidName(OldId(t)), sessionId |-> OldId(t), status |-> k,
        workingDir |-> "/x", created_at |-> 0]
OldWindow(t) ==
  [NoWindow EXCEPT !.alive = TRUE, !.name = SidName(OldId(t)), !.thread = t,
                   !.dir = "/x", !.asst = OldId(t), !.responded = TRUE,
                   !.origin = "old"]

\* The state once startup has finished (loadConfig, initWindowIndex,
\* reconnectSessions): the registry file and the tmux session outlive the
\* bridge process; every non-terminated entry names an existing window.
CoreInit ==
  /\ \E c \in ConfigMax : configMax = c /\ maxConcurrent = LoadMaxConcurrent(c)
  /\ \E old \in [Threads -> OldKinds] :
       /\ Cardinality({t \in Threads : old[t] = "active"}) <= maxConcurrent
       /\ registry = [t \in Threads |-> OldEntry(t, old[t])]
       /\ windows = [w \in Wins |->
                      IF w \in Threads /\ old[w] = "active"
                      THEN OldWindow(w) ELSE NoWindow]
       /\ started = {t \in Threads : old[t] # "absent"}
  /\ windowIndex = 1
  /\ creatingSession = {}
  /\ hs = [m \in Msgs |-> NoHandler]
  /\ nextMsg = 1
  /\ task = NoTask
  /\ posts = {}
  /\ sent = <<>>

\* ------------------------------------------------------------------------
\* tmux helpers
\* ------------------------------------------------------------------------
\* windows a `-t session:name` target can resolve to
Named(name) == {w \in Wins : windows[w].alive /\ windows[w].name = name}
tmuxWindowExists(name) == Named(name) # {}
\* What a command with `-t session:name` acts on: the window of that name; 0
\* when the command fails.  With several windows of the name it is one of
\* them or a failure, depending on tmux.
Resolve(name) ==
  LET N == Named(name) IN IF Cardinality(N) = 1 THEN N ELSE N \cup {0}

Min(S) == CHOOSE x \in S : \A y \in S : x <= y
Max(S) == CHOOSE x \in S : \A y \in S : x >= y

\* tmux ids not used yet; a new window gets the next one
FreeWins == {w \in Wins : windows[w].origin = "none"}
NewWin == Min(FreeWins)

\* The Node.js event loop runs one callback at a time, and continuations of a
\* resolved promise run before any other event.
BridgeFree ==
  /\ task.kind = "none"
  /\ \A m \in Msgs : hs[m].pc # "resumed"


\* ------------------------------------------------------------------------
\* handleMessage
\* ------------------------------------------------------------------------
\* lines 839-845: `status = status === 'starting' ? 'starting' : 'active'`
TouchActivity(s) == [s EXCEPT !.status = IF @ = "starting" THEN "starting" ELSE "active"]

\* `session?.status === 'terminated' && session.sessionId &&
\*  !session.window.startsWith('new-')`
ShouldResurrect(s) ==
  s.status = "terminated" /\ s.sessionId # 0 /\ ~IsProvisional(s.window)

\* a finally that wakes nobody
ReleaseLock_None(H, t) == H

\* withSessionLock's finally: delete the entry and resolve the promise; every
\* handler awaiting it gets its continuation queued
ReleaseLock(H, t) ==
  [m \in Msgs |-> IF H[m].pc = "waiting" /\ H[m].thread = t
                  THEN [H[m] EXCEPT !.pc = "resumed"] ELSE H[m]]

\* handlers of thread t that are inside createFn (between its first await and
\* its return)
InCreation(t) ==
  {m \in Msgs : hs[m].thread = t /\ hs[m].pc \in {"creating", "limit_say"}}

\* a withSessionLock that never finds a creation in flight
LockHeld_Never(t) == FALSE

\* withSessionLock's test `creatingSession.has(threadTs)`
LockHeld(t) == t \in creatingSession

\* createFn: `activeCount >= config.multiSession.maxConcurrent`
LimitReached(sessions) == ActiveCount(sessions) >= maxConcurrent

Finished(h, ok) ==
  [NoHandler EXCEPT !.pc = "done", !.thread = h.thread, !.waitedOn = h.waitedOn,
                    !.failed = ~ok]

\* The synchronous prefix of handleMessage (lines 758-836) up to its first
\* await, for a message with text and no attachments.
Receive(m, t, d) ==
  /\ BridgeFree
  /\ m = nextMsg
  /\ hs[m].pc = "none"
  /\ (d = "none") = (t \in started)   \* a `[path]` prefix on root messages only
  /\ nextMsg' = nextMsg + 1
  /\ started' = started \cup {t}
  /\ LET sessions == registry
         session == sessions[t]
         base == [NoHandler EXCEPT !.thread = t, !.sessions = sessions, !.dir = d,
                    !.waitedOn = IF NeedsCreation(session) /\ InCreation(t) # {}
                                 THEN Min(InCreation(t)) ELSE 0]
     IN
     IF ~NeedsCreation(session)
     THEN \* session exists: lines 839-845, then suspended until Inject
          /\ hs' = [hs EXCEPT ![m] = [base EXCEPT
                       !.pc = "pending",
                       !.isNew = (session.status = "starting"),
                       !.sessions = [sessions EXCEPT ![t] = TouchActivity(@)]]]
          /\ UNCHANGED <<windows, windowIndex, creatingSession, posts>>
     ELSE IF LockHeld(t)
     THEN \* withSessionLock: await the in-flight promise
          /\ hs' = [hs EXCEPT ![m] = [base EXCEPT !.pc = "waiting"]]
          /\ UNCHANGED <<windows, windowIndex, creatingSession, posts>>
     ELSE IF LimitReached(sessions)
     THEN \* limit notice: `await say(...)`, then return 'limit_reached'
          /\ hs' = [hs EXCEPT ![m] = [base EXCEPT !.pc = "limit_say",
                                                   !.atLimit = TRUE]]
          /\ creatingSession' = creatingSession \cup {t}
          /\ posts' = posts \cup {<<t, "limit">>}
          /\ UNCHANGED <<windows, windowIndex>>
     ELSE \* createSession / resurrectSession up to the WINDOW_CREATE_DELAY
          /\ FreeWins # {}
          /\ windowIndex' = windowIndex + 1
          /\ windows' = [windows EXCEPT ![NewWin] =
                           [NoWindow EXCEPT !.alive = TRUE,
                                            !.name = NewName(windowIndex),
                                            !.origin = "bridge",
                                            !.creator = m]]
          /\ creatingSession' = creatingSession \cup {t}
          /\ hs' = [hs EXCEPT ![m] = [base EXCEPT
                       !.pc = "creating",
                       !.win = windowIndex,
                       !.resume = IF ShouldResurrect(session)
                                  THEN session.sessionId ELSE 0]]
          /\ UNCHANGED posts
  /\ UNCHANGED <<maxConcurrent, registry, task, sent>>
  /\ UNCHANGED side

\* createSession / resurrectSession after the delay, the save in createFn, the
\* release of the lock and lines 839-845 of the creating handler.
CreateResume(m) ==
  /\ BridgeFree
  /\ hs[m].pc = "creating"
  /\ \E w \in Resolve(NewName(hs[m].win)) :
     LET h == hs[m]
         t == h.thread
         name == NewName(h.win)
     IN
     IF w = 0
     THEN \* send-keys fails: createFn throws, the lock is released
          /\ hs' = [ReleaseLock(hs, t) EXCEPT ![m] = Finished(h, FALSE)]
          /\ creatingSession' = creatingSession \ {t}
          /\ UNCHANGED <<registry, windows>>
     ELSE LET dir == IF h.resume = 0
                     THEN (IF h.dir # "none" THEN h.dir ELSE HOME)
                     ELSE (IF h.dir # "none" THEN h.dir
                           ELSE IF registry[t].workingDir # "none"
                                THEN registry[t].workingDir ELSE HOME)
              session == [window |-> name, sessionId |-> h.resume,
                          status |-> "starting", workingDir |-> dir,
                          created_at |-> w]
              sessions == [h.sessions EXCEPT ![t] = session]
          IN
          /\ windows' = IF windows[w].asst # 0
                         THEN \* the name resolves to a window where an assistant
                              \* already runs: the keys are its next prompt
                              [windows EXCEPT ![w].busy = TRUE]
                         ELSE [windows EXCEPT ![w] =
                                 [@ EXCEPT !.thread = t, !.dir = dir,
                                           !.resume = h.resume,
                                           !.asst = IF h.resume # 0 THEN h.resume ELSE w]]
          /\ registry' = sessions
          /\ creatingSession' = creatingSession \ {t}
          /\ hs' = [ReleaseLock(hs, t) EXCEPT ![m] =
                      [h EXCEPT !.pc = "pending", !.isNew = TRUE,
                                !.sessions = sessions]]
  /\ UNCHANGED <<maxConcurrent, windowIndex, nextMsg, task, started, posts, sent>>
  /\ UNCHANGED side

\* the limit notice has been posted: createFn returns 'limit_reached'
LimitDone(m) ==
  /\ BridgeFree
  /\ hs[m].pc = "limit_say"
  /\ hs' = [ReleaseLock(hs, hs[m].thread) EXCEPT ![m] = Finished(hs[m], TRUE)]
  /\ creatingSession' = creatingSession \ {hs[m].thread}
  /\ UNCHANGED <<maxConcurrent, registry, windows, windowIndex, nextMsg,
                 task, started, posts, sent>>
  /\ UNCHANGED side

\* a handler that awaited another handler's creation: withSessionLock returned
\* null, lines 826-845
WaitResume(m) ==
  /\ task.kind = "none"
  /\ hs[m].pc = "resumed"
  /\ LET h == hs[m]
         t == h.thread
         sessions == registry
     IN
     IF sessions[t].status = "absent"
     THEN \* `session.status` on undefined: TypeError
          hs' = [hs EXCEPT ![m] = Finished(h, FALSE)]
     ELSE hs' = [hs EXCEPT ![m] =
                   [h EXCEPT !.pc = "pending",
                             !.atLimit = NeedsCreation(sessions[t])
                                           /\ LimitReached(sessions),
                             !.isNew = (sessions[t].status = "starting"),
                             !.sessions = [sessions EXCEPT ![t] = TouchActivity(@)]]]
  /\ UNCHANGED <<maxConcurrent, registry, windows, windowIndex,
                 creatingSession, nextMsg, task, started, posts, sent>>
  /\ UNCHANGED side

\* lines 898-924 after the last await: store lastMessageTs, save the handler's
\* map, send the text to session.window
Inject(m) ==
  /\ BridgeFree
  /\ hs[m].pc = "pending"
  /\ \E w \in Resolve(hs[m].sessions[hs[m].thread].window) :
     LET h == hs[m] IN
     /\ registry' = h.sessions
     /\ IF w # 0
        THEN /\ windows' = [windows EXCEPT ![w].busy = TRUE]
             /\ sent' = Append(sent, <<m, w>>)
             /\ hs' = [hs EXCEPT ![m] = Finished(h, TRUE)]
        ELSE /\ hs' = [hs EXCEPT ![m] = Finished(h, FALSE)]
             /\ UNCHANGED <<windows, sent>>
  /\ UNCHANGED <<maxConcurrent, windowIndex, creatingSession, nextMsg,
                 task, started, posts>>
  /\ UNCHANGED side


\* ------------------------------------------------------------------------
\* Termination and sweeps
\* ------------------------------------------------------------------------
\* terminateSession: kill-window (errors ignored), reload, mark, save
terminateSession(t, session) ==
  /\ \E w \in Resolve(session.window) :
       windows' = IF w = 0 THEN windows
                  ELSE [windows EXCEPT ![w] = [@ EXCEPT !.alive = FALSE,
                                                        !.hook = "none",
                                                        !.hookThread = 0]]
  /\ registry' = IF registry[t].status # "absent"
                 THEN [registry EXCEPT ![t].status = "terminated"]
                 ELSE registry

\* reaction_added with a stop reaction on the thread's root message
\* (lines 1262-1300); `!kill` in the thread takes the same path
ReactionStop(t) ==
  /\ BridgeFree
  /\ NonTerminated(registry[t])
  /\ terminateSession(t, registry[t])
  /\ UNCHANGED <<maxConcurrent, windowIndex, creatingSession, hs, nextMsg,
                 task, started, posts, sent>>
  /\ UNCHANGED side

\* startCleanupInterval's callback for one idle session whose idle_since is
\* older than the timeout (the passage of time is not constrained here)
IdleSweep(t) ==
  /\ BridgeFree
  /\ registry[t].status = "idle"
  /\ terminateSession(t, registry[t])
  /\ UNCHANGED <<maxConcurrent, windowIndex, creatingSession, hs, nextMsg,
                 task, started, posts, sent>>
  /\ UNCHANGED side

\* startHealthCheckInterval's callback: loadSessions ...
HealthLoad ==
  /\ BridgeFree
  /\ \E t \in Threads : NonTerminated(registry[t])
  /\ task' = [kind |-> "health", sessions |-> registry]
  /\ UNCHANGED <<maxConcurrent, registry, windows, windowIndex,
                 creatingSession, hs, nextMsg, started, posts, sent>>
  /\ UNCHANGED side

Crashed(sessions) ==
  {t \in Threads : NonTerminated(sessions[t]) /\ ~tmuxWindowExists(sessions[t].window)}

\* ... the loop over the loaded map and saveSessions of that map if changed
HealthSave ==
  /\ task.kind = "health"
  /\ LET dead == Crashed(task.sessions) IN
     /\ registry' = IF dead # {}
                    THEN [t \in Threads |->
                            IF t \in dead
                            THEN [task.sessions[t] EXCEPT !.status = "terminated"]
                            ELSE task.sessions[t]]
                    ELSE registry
     /\ posts' = posts \cup {<<t, "crash">> : t \in dead}
  /\ task' = NoTask
  /\ UNCHANGED <<maxConcurrent, windows, windowIndex, creatingSession, hs,
                 nextMsg, started, sent>>
  /\ UNCHANGED side

\* ------------------------------------------------------------------------
\* Outside the bridge: tmux windows and the notify hook
\* ------------------------------------------------------------------------
\* a window is closed or its shell exits
WindowDies(w) ==
  /\ windows[w].alive
  /\ windows' = [windows EXCEPT ![w] = [@ EXCEPT !.alive = FALSE, !.hook = "none",
                                                 !.hookThread = 0, !.died = TRUE]]
  /\ UNCHANGED <<maxConcurrent, registry, windowIndex, creatingSession, hs,
                 nextMsg, task, started, posts, sent>>
  /\ UNCHANGED side

\* slack-notify.sh lines 466-487: the registry lookup by window name
\*   select(window == SESSION_ID or window == CURRENT_WINDOW)
\*   | sort_by(status == "active" | not) | sort_by(created_at) | reverse | .[0]
\* and the fallback to CLAUDE_THREAD_TS
Candidates(w) ==
  {t \in Threads : /\ registry[t].status # "absent"
                   /\ registry[t].window # NoName
                   /\ registry[t].window \in {SidName(windows[w].asst), windows[w].name}}

LookupThread(w) ==
  LET C == Candidates(w)
      newest == {t \in C : \A u \in C : registry[u].created_at <= registry[t].created_at}
      pref == IF \E t \in newest : registry[t].status # "active"
              THEN {t \in newest : registry[t].status # "active"}
              ELSE newest
  IN IF C = {} THEN windows[w].thread ELSE Max(pref)

\* jq `.[$ts].field = v` on a key that is missing makes the entry
Touch(s) == IF s.status = "absent" THEN [s EXCEPT !.status = "undef"] ELSE s

\* Stop hook, window still has its provisional name: tmux rename-window
HookStopRename(w) ==
  /\ windows[w].alive /\ windows[w].busy /\ windows[w].hook = "none"
  /\ windows[w].asst # 0
  /\ IsProvisional(windows[w].name)
  /\ \E target \in Resolve(windows[w].name) :
       LET t == LookupThread(w)
           W == IF target = 0 THEN windows
                ELSE [windows EXCEPT ![target].name = SidName(windows[w].asst)]
       IN windows' = [W EXCEPT ![w].hook = "renamed", ![w].hookThread = t]
  /\ UNCHANGED <<maxConcurrent, registry, windowIndex, creatingSession, hs,
                 nextMsg, task, started, posts, sent>>
  /\ UNCHANGED side

\* ... followed by update_session(window, sessionId, status = "active")
HookStopUpdate(w) ==
  /\ windows[w].alive /\ windows[w].hook = "renamed"
  /\ LET t == windows[w].hookThread IN
     registry' = [registry EXCEPT ![t] =
                    [@ EXCEPT !.window = SidName(windows[w].asst),
                              !.sessionId = windows[w].asst,
                              !.status = "active"]]
  /\ windows' = [windows EXCEPT ![w] = [@ EXCEPT !.hook = "none", !.hookThread = 0,
                                                 !.busy = FALSE, !.responded = TRUE]]
  /\ UNCHANGED <<maxConcurrent, windowIndex, creatingSession, hs, nextMsg,
                 task, started, posts, sent>>
  /\ UNCHANGED side

\* Stop hook in a window that already has its final name
HookStop(w) ==
  /\ windows[w].alive /\ windows[w].busy /\ windows[w].hook = "none"
  /\ windows[w].asst # 0
  /\ ~IsProvisional(windows[w].name)
  /\ registry' = [registry EXCEPT ![LookupThread(w)] = Touch(@)]
  /\ windows' = [windows EXCEPT ![w] = [@ EXCEPT !.busy = FALSE, !.responded = TRUE]]
  /\ UNCHANGED <<maxConcurrent, windowIndex, creatingSession, hs, nextMsg,
                 task, started, posts, sent>>
  /\ UNCHANGED side

\* Notification(idle_prompt): status = "idle", idle_since = now
HookIdle(w) ==
  /\ windows[w].alive /\ ~windows[w].busy /\ windows[w].responded
  /\ windows[w].hook = "none"
  /\ registry' = [registry EXCEPT ![LookupThread(w)].status = "idle"]
  /\ UNCHANGED <<maxConcurrent, windows, windowIndex, creatingSession, hs,
                 nextMsg, task, started, posts, sent>>
  /\ UNCHANGED side

\* ------------------------------------------------------------------------
\* Outside the bridge: the local launcher slack-claude.sh
\* ------------------------------------------------------------------------
LocalRuns == Cardinality({w \in Wins : windows[w].origin = "local"})

\* lines 554-562: [.. | .window | select(startswith("new-")) | tonumber] | max // 0,
\* and 0 when jq fails on an entry without a window
RegistryMaxIndex ==
  LET idx == {registry[t].window.n : t \in {u \in Threads : IsProvisional(registry[u].window)}}
  IN IF \E t \in Threads : registry[t].status # "absent" /\ registry[t].window = NoName
     THEN 0
     ELSE IF idx = {} THEN 0 ELSE Max(idx)

\* slack-claude.sh without --resume: post a root message (a new thread), open a
\* window named from the registry, start the assistant, send the initial
\* message if one was given, register the entry
LocalStart(t, d, msg) ==
  /\ t \notin started
  /\ registry[t].status = "absent"
  /\ FreeWins # {}
  /\ LocalRuns < MaxLocal
  /\ LET w == NewWin
         name == NewName(RegistryMaxIndex + 1)
     IN
     /\ windows' = [windows EXCEPT ![w] =
                      [NoWindow EXCEPT !.alive = TRUE, !.name = name, !.thread = t,
                                       !.dir = d, !.asst = w, !.busy = msg,
                                       !.origin = "local"]]
     /\ registry' = [registry EXCEPT ![t] =
                       [window |-> name, sessionId |-> 0, status |-> "active",
                        workingDir |-> d, created_at |-> w]]
  /\ started' = started \cup {t}
  /\ UNCHANGED <<maxConcurrent, windowIndex, creatingSession, hs, nextMsg, task,
                 posts, sent>>
  /\ UNCHANGED side

\* slack-claude.sh --resume <id> for an id the registry knows: a window named
\* id[:8], the assistant resumed, the entry's window and status updated
LocalResume(t) ==
  /\ registry[t].sessionId # 0
  /\ FreeWins # {}
  /\ LocalRuns < MaxLocal
  /\ LET w == NewWin
         id == registry[t].sessionId
     IN
     /\ windows' = [windows EXCEPT ![w] =
                      [NoWindow EXCEPT !.alive = TRUE, !.name = SidName(id),
                                       !.thread = t, !.dir = HOME, !.asst = id,
                                       !.resume = id, !.origin = "local"]]
     /\ registry' = [registry EXCEPT ![t] =
                       [@ EXCEPT !.window = SidName(id), !.status = "active"]]
  /\ UNCHANGED <<maxConcurrent, windowIndex, creatingSession, hs, nextMsg, task,
                 started, posts, sent>>
  /\ UNCHANGED side

\* ------------------------------------------------------------------------
\* Idle timeout
\* ------------------------------------------------------------------------
\* The registry entries reduced to what the idle timeout reads and writes.
\* idle_since 0 is null; the clock starts at 1.
MaxClock == 4
Times == 1..MaxClock

\* config.multiSession.idleTimeoutMinutes
IdleTimeoutMinutes == 1

IdleEntry(st, since) == [status |-> st, idle_since |-> since]
NoIdleHandler == [pc |-> "none", thread |-> 0, sessions |-> <<>>]
NoIdleTask == [pc |-> "none", now |-> 0, sessions |-> <<>>, todo |-> {}]

IdleQuiet ==
  /\ clock = 1
  /\ idleReg = <<>>
  /\ idleWin = {}
  /\ idleHs = NoIdleHandler
  /\ idleTask = NoIdleTask

\* Sessions left by earlier messages: each has a window unless terminated
IdleInit ==
  /\ clock = 1
  /\ \E st \in [Threads -> {"starting", "active", "terminated"}] :
       /\ idleReg = [t \in Threads |-> IdleEntry(st[t], 0)]
       /\ idleWin = {t \in Threads : st[t] # "terminated"}
  /\ idleHs = NoIdleHandler
  /\ idleTask = NoIdleTask

\* A minute passes (a timer callback of the bridge runs within one instant)
IdleTick ==
  /\ idleTask.pc = "none"
  /\ clock < MaxClock
  /\ clock' = clock + 1
  /\ UNCHANGED <<idleRest, idleReg, idleWin, idleHs, idleTask>>

\* notify hook, Notification(idle_prompt), in the window of thread t
IdlePrompt(t) ==
  /\ t \in idleWin
  /\ idleReg' = [idleReg EXCEPT ![t] = IdleEntry("idle", clock)]
  /\ UNCHANGED <<idleRest, clock, idleWin, idleHs, idleTask>>

\* notify hook, Stop, after the first response of a new session
IdleFirstStop(t) ==
  /\ t \in idleWin
  /\ idleReg[t].status = "starting"
  /\ idleReg' = [idleReg EXCEPT ![t].status = "active"]
  /\ UNCHANGED <<idleRest, clock, idleWin, idleHs, idleTask>>

\* handleMessage for a thread with a session, up to its first await: the
\* activity update is made on the loaded map only
IdleTouch(s) ==
  [s EXCEPT !.idle_since = 0,
            !.status = IF s.status = "starting" THEN "starting" ELSE "active"]

IdleAccept(t) ==
  /\ idleHs.pc = "none" /\ idleTask.pc = "none"
  /\ idleReg[t].status # "terminated"
  /\ idleHs' = [pc |-> "pending", thread |-> t,
                sessions |-> [idleReg EXCEPT ![t] = IdleTouch(@)]]
  /\ UNCHANGED <<idleRest, clock, idleReg, idleWin, idleTask>>

\* handleMessage after `await addReaction`: saveSessions(sessions)
IdleSaved ==
  /\ idleHs.pc = "pending" /\ idleTask.pc = "none"
  /\ idleReg' = idleHs.sessions
  /\ idleHs' = NoIdleHandler
  /\ UNCHANGED <<idleRest, clock, idleWin, idleTask>>

\* the timer callback of startCleanupInterval: the test of one entry
Expired_AtLeast(s, now) ==
  s.status = "idle" /\ s.idle_since # 0 /\ now - s.idle_since >= IdleTimeoutMinutes

Expired(s, now) ==
  s.status = "idle" /\ s.idle_since # 0 /\ now - s.idle_since > IdleTimeoutMinutes

\* loadSessions() and `now`
SweepLoad ==
  /\ idleTask.pc = "none"
  /\ idleTask' = [pc |-> "loaded", now |-> clock, sessions |-> idleReg,
                  todo |-> {t \in Threads : Expired(idleReg[t], clock)}]
  /\ UNCHANGED <<idleRest, clock, idleReg, idleWin, idleHs>>

\* terminateSession(threadTs, session) for the next entry of the loop
SweepTerminate(t) ==
  /\ idleTask.pc = "loaded"
  /\ t \in idleTask.todo
  /\ idleWin' = idleWin \ {t}
  /\ idleReg' = [idleReg EXCEPT ![t].status = "terminated"]
  /\ idleTask' = [idleTask EXCEPT !.todo = @ \ {t}]
  /\ UNCHANGED <<idleRest, clock, idleHs>>

SweepEnd ==
  /\ idleTask.pc = "loaded"
  /\ idleTask.todo = {}
  /\ idleTask' = NoIdleTask
  /\ UNCHANGED <<idleRest, clock, idleReg, idleWin, idleHs>>

\* ------------------------------------------------------------------------
\* Authorization
\* ------------------------------------------------------------------------
NUsers == 2
Users == 1..NUsers

\* what reaches an event handler of the bridge
EventKinds == {"message", "app_mention", "reaction_added", "command"}

\* isAuthorized(userId)
isAuthorized(userId) ==
  IF allowedUsers = {} THEN TRUE ELSE userId \in allowedUsers

AuthQuiet ==
  /\ allowedUsers = {}
  /\ handled = {}

\* config.json can list any users, or none
AuthInit ==
  /\ allowedUsers \in SUBSET Users
  /\ handled = {}

\* app.message: a user message goes on to the commands and handleMessage, or
\* gets the refusal
AppMessage(u) ==
  /\ handled' = handled \cup
       {<<"message", u, IF isAuthorized(u) THEN "processed" ELSE "refused">>}
  /\ UNCHANGED <<authRest, allowedUsers>>

\* app.event('app_mention')
AppMention(u) ==
  /\ handled' = handled \cup
       {<<"app_mention", u, IF isAuthorized(u) THEN "processed" ELSE "refused">>}
  /\ UNCHANGED <<authRest, allowedUsers>>

\* app.event('reaction_added'): returns without a word
ReactionAdded(u) ==
  /\ handled' = handled \cup
       {<<"reaction_added", u, IF isAuthorized(u) THEN "processed" ELSE "ignored">>}
  /\ UNCHANGED <<authRest, allowedUsers>>

\* app.command: /claude-sessions, /claude-status, /claude-kill, /claude-find
SlashCommand(u) ==
  /\ handled' = handled \cup
       {<<"command", u, IF isAuthorized(u) THEN "processed" ELSE "refused">>}
  /\ UNCHANGED <<authRest, allowedUsers>>

\* app.command('/claude-help'): answers anyone with the help text
SlashHelp(u) ==
  /\ handled' = handled \cup {<<"command", u, "help">>}
  /\ UNCHANGED <<authRest, allowedUsers>>

\* ------------------------------------------------------------------------
\* Instance lock
\* ------------------------------------------------------------------------
NProcs == 3
Procs == 1..NProcs

\* the PID of a bridge that ran earlier and is gone
StalePid == NProcs + 1

\* `kill -0 pid`: a process exists from its start to its exit
Running(pid) == pid \in Procs /\ bridges[pid] \in {"checked", "locked"}

LockQuiet ==
  /\ lockFile = 0
  /\ bridges = <<>>

\* no lock file, or one left behind by a bridge that was killed
LockInit ==
  /\ lockFile \in {0, StalePid}
  /\ bridges = [p \in Procs |-> "new"]

\* acquireInstanceLock up to the write: existsSync, readFileSync, kill -0;
\* process.exit(1) when the PID in the file is alive
LockCheck(p) ==
  /\ bridges[p] = "new"
  /\ bridges' = [bridges EXCEPT ![p] =
                   IF lockFile # 0 /\ Running(lockFile) THEN "refused"
                   ELSE "checked"]
  /\ UNCHANGED <<lockRest, lockFile>>

\* writeFileSync(lockFile, pid) and the registration of cleanup
LockWrite(p) ==
  /\ bridges[p] = "checked"
  /\ lockFile' = p
  /\ bridges' = [bridges EXCEPT ![p] = "locked"]
  /\ UNCHANGED lockRest

\* cleanup on exit, SIGINT or SIGTERM: remove the file if it holds our PID
LockCleanup(p) ==
  /\ bridges[p] = "locked"
  /\ lockFile' = IF lockFile = p THEN 0 ELSE lockFile
  /\ bridges' = [bridges EXCEPT ![p] = "exited"]
  /\ UNCHANGED lockRest

\* SIGKILL: no handler runs
LockKilled(p) ==
  /\ Running(p)
  /\ bridges' = [bridges EXCEPT ![p] = "exited"]
  /\ UNCHANGED <<lockRest, lockFile>>

\* ------------------------------------------------------------------------
\* Stop reaction
\* ------------------------------------------------------------------------
MaxStops == 2

StopQuiet ==
  /\ stopReg = <<>>
  /\ stopWin = {}
  /\ stopSeen = <<>>
  /\ stopPosts = <<>>

StopInit ==
  /\ stopReg \in [Threads -> {"absent", "active", "terminated"}]
  /\ stopWin = {t \in Threads : stopReg[t] = "active"}
  /\ stopSeen = [t \in Threads |-> 0]
  /\ stopPosts = [t \in Threads |-> 0]

\* reaction_added without its test of the status
AlreadyTerminated_Never(status) == FALSE

\* reaction_added: `if (session.status === 'terminated') return`
AlreadyTerminated(status) == status = "terminated"

\* reaction_added with a stop emoji on the root message of thread t:
\* terminateSession (kill-window with its error caught, mark, save) and the
\* confirmation, or an early return
StopReaction(t) ==
  /\ stopSeen[t] < MaxStops
  /\ stopSeen' = [stopSeen EXCEPT ![t] = @ + 1]
  /\ IF stopReg[t] = "absent" \/ AlreadyTerminated(stopReg[t])
     THEN UNCHANGED <<stopReg, stopWin, stopPosts>>
     ELSE /\ stopWin' = stopWin \ {t}
          /\ stopReg' = [stopReg EXCEPT ![t] = "terminated"]
          /\ stopPosts' = [stopPosts EXCEPT ![t] = @ + 1]
  /\ UNCHANGED stopRest

\* a later inbound on the thread resurrects the session
StopResurrect(t) ==
  /\ stopReg[t] = "terminated"
  /\ stopReg' = [stopReg EXCEPT ![t] = "active"]
  /\ stopWin' = stopWin \cup {t}
  /\ UNCHANGED <<stopRest, stopSeen, stopPosts>>

\* the window of a session is closed from outside
StopWindowDies(t) ==
  /\ t \in stopWin
  /\ stopWin' = stopWin \ {t}
  /\ UNCHANGED <<stopRest, stopReg, stopSeen, stopPosts>>

\* ------------------------------------------------------------------------
\* Pending permission
\* ------------------------------------------------------------------------
\* A message text is its words, in order (the whitespace around and between
\* them is what trim() and \s+ take away); <<>> is a text of whitespace only.
MaxWords == 2
Words == {"1", "3", "2.", "y", "Yes", "no", "fix", "it"}
Texts == UNION {[1..n -> Words] : n \in 0..MaxWords}

\* toLowerCase(), and the /i flag of the yes/no patterns
Lower(w) == IF w = "Yes" THEN "yes" ELSE w

Digits == {"1", "2", "3", "4", "5", "6", "7", "8", "9"}
DottedDigits == {"1.", "2.", "3.", "4.", "5.", "6.", "7.", "8.", "9."}

\* isOptionSelection: /^[1-9]$/ or one of yes, no, y, n
isOptionSelection(text) ==
  Len(text) = 1 /\ Lower(text[1]) \in Digits \cup {"yes", "no", "y", "n"}

\* parseOptionWithInstructions(text).hasInstructions: /^([1-9])\.?\s+(.+)$/,
\* /^(yes|y)\s+(.+)$/i or /^(no|n)\s+(.+)$/i
hasInstructions(text) ==
  /\ Len(text) >= 2
  /\ \/ text[1] \in Digits \cup DottedDigits
     \/ Lower(text[1]) \in {"yes", "y", "no", "n"}

\* a rewrite that does not look at the text
textToSend_Always(pendingPermission, messageText) ==
  IF pendingPermission THEN <<"3">> \o messageText ELSE messageText

\* handleMessage, lines 905-913
textToSend(pendingPermission, messageText) ==
  IF /\ pendingPermission
     /\ ~isOptionSelection(messageText)
     /\ ~hasInstructions(messageText)
  THEN <<"3">> \o messageText
  ELSE messageText

NoPermHandler == [pc |-> "none", text |-> <<>>, pendingPermission |-> FALSE]

PermQuiet ==
  /\ permReg = FALSE
  /\ permHs = NoPermHandler
  /\ permSent = <<>>

PermInit ==
  /\ permReg \in BOOLEAN
  /\ permHs = NoPermHandler
  /\ permSent = <<>>

\* notify hook, Notification(permission_prompt)
PermissionPrompt ==
  /\ permReg' = TRUE
  /\ UNCHANGED <<permRest, permHs, permSent>>

\* notify hook, Notification(idle_prompt): del(.pendingPermission)
PermIdlePrompt ==
  /\ permReg' = FALSE
  /\ UNCHANGED <<permRest, permHs, permSent>>

\* handleMessage for the session's thread, up to its first await
PermAccept(text) ==
  /\ permHs.pc = "none"
  /\ permHs' = [pc |-> "pending", text |-> text, pendingPermission |-> permReg]
  /\ UNCHANGED <<permRest, permReg, permSent>>

\* handleMessage after its last await, lines 899-924: saveSessions of the
\* loaded map, the rewrite, the clearing of the flag and sendToWindow
PermInject ==
  /\ permHs.pc = "pending"
  /\ permHs' = NoPermHandler
  /\ IF permHs.text # <<>>
     THEN /\ permSent' = <<permHs.text,
                           textToSend(permHs.pendingPermission, permHs.text)>>
          /\ permReg' = FALSE
     ELSE /\ permReg' = permHs.pendingPermission
          /\ UNCHANGED permSent
  /\ UNCHANGED permRest

\* ------------------------------------------------------------------------
\* Pending hash
\* ------------------------------------------------------------------------
MaxInputs == 2

\* what can be typed into the window: an attachment path, a message text, the
\* same message text with a blank in front, a text of two lines with the
\* second line indented
Inputs == {"/tmp/f.png", "go", " go", "go\n on"}

\* trim(): the white space at the two ends of the text
Trim(text) == IF text = " go" THEN "go" ELSE text

\* the sed of the hook, `s/^[[:space:]]*//;s/[[:space:]]*$//`: the white space
\* at the two ends of every line
SedTrim(text) ==
  IF text = " go" THEN "go"
  ELSE IF text = "go\n on" THEN "go\non"
  ELSE text

\* createHash('md5').update(...).digest('hex'), md5sum
Md5(text) == <<"md5", text>>

NoFile == <<>>

HashQuiet ==
  /\ pendingFile = NoFile
  /\ typed = <<>>
  /\ nInjected = 0
  /\ localInput = {}

\* handleMessage, for one attachment path or for the message text: write the
\* hash of the input to the pending file, then sendToWindow
HashInject(text) ==
  /\ nInjected < MaxInputs
  /\ nInjected' = nInjected + 1
  /\ pendingFile' = Md5(Trim(text))
  /\ typed' = Append(typed, <<"chat", text>>)
  /\ UNCHANGED <<hashRest, localInput>>

\* the user types a prompt in the tmux window
HashLocal(text) ==
  /\ Len(typed) < MaxInputs
  /\ typed' = Append(typed, <<"local", text>>)
  /\ UNCHANGED <<hashRest, pendingFile, nInjected, localInput>>

\* the assistant submits the next prompt (at once, or when its current turn
\* ends) and runs the prompt-forwarding hook on it
HashHook ==
  /\ typed # <<>>
  /\ typed' = Tail(typed)
  /\ LET PROMPT == Head(typed)[2] IN
     IF pendingFile # NoFile /\ pendingFile = Md5(SedTrim(PROMPT))
     THEN /\ pendingFile' = NoFile
          /\ UNCHANGED localInput
     ELSE /\ pendingFile' = NoFile
          /\ localInput' = localInput \cup {Head(typed)}
  /\ UNCHANGED <<hashRest, nInjected>>

\* ------------------------------------------------------------------------
\* Readiness
\* ------------------------------------------------------------------------
CLAUDE_READY_TIMEOUT == 15000
CLAUDE_READY_POLL == 300

\* what capturePaneContent can return, by the markers it contains
Panes == SUBSET {"trust", "ready"}

\* a wait that does not look for the trust prompt
showsTrustPrompt_Never(content) == FALSE

\* `content.includes('trust this folder') || content.includes('Yes, I trust')`
showsTrustPrompt(content) == "trust" \in content

\* `content.includes('Welcome')`, the prompt glyph, 'What would you like to do?'
showsReady(content) == "ready" \in content

NoReadyHandler == [pc |-> "none", sawTrust |-> FALSE]

ReadyQuiet ==
  /\ pane = {}
  /\ elapsed = 0
  /\ readyHs = NoReadyHandler

\* createSession or resurrectSession has returned and handleMessage, with
\* isNewSession, calls waitForClaudeReady; the assistant is starting
ReadyInit ==
  /\ pane \in Panes
  /\ elapsed = 0
  /\ readyHs = [pc |-> "polling", sawTrust |-> FALSE]

\* the assistant (or the shell before it) redraws the pane
PaneChanges(content) ==
  /\ readyHs.pc # "sent"
  /\ pane # content
  /\ pane' = content
  /\ UNCHANGED <<readyRest, elapsed, readyHs>>

\* one turn of the loop of waitForClaudeReady
ReadyPoll ==
  /\ readyHs.pc = "polling"
  /\ elapsed < CLAUDE_READY_TIMEOUT
  /\ LET content == pane IN
     IF showsTrustPrompt(content)
     THEN /\ elapsed' = elapsed + CLAUDE_READY_POLL
          /\ readyHs' = [readyHs EXCEPT !.sawTrust = TRUE]
     ELSE IF showsReady(content)
     THEN /\ readyHs' = [readyHs EXCEPT !.pc = "ready"]
          /\ UNCHANGED elapsed
     ELSE /\ elapsed' = elapsed + CLAUDE_READY_POLL
          /\ UNCHANGED readyHs
  /\ UNCHANGED <<readyRest, pane>>

\* the loop ends on the deadline: return false
ReadyTimedOut ==
  /\ readyHs.pc = "polling"
  /\ elapsed >= CLAUDE_READY_TIMEOUT
  /\ readyHs' = [readyHs EXCEPT !.pc = "timeout"]
  /\ UNCHANGED <<readyRest, pane, elapsed>>

\* handleMessage after waitForClaudeReady: sendToWindow
ReadySend ==
  /\ readyHs.pc \in {"ready", "timeout"}
  /\ readyHs' = [readyHs EXCEPT !.pc = "sent"]
  /\ UNCHANGED <<readyRest, pane, elapsed>>

\* ------------------------------------------------------------------------
\* Attachments
\* ------------------------------------------------------------------------
MaxFiles == 2

\* file.name of an attachment, and the texts of a message
FileNames == {"a.png", "b.exe", "c.txt"}
Bodies == {"", "look"}
Files == UNION {[1..n -> FileNames] : n \in 1..MaxFiles}

\* what a download can come to: the file is written, response.ok is false,
\* fetch rejects (the abort of FILE_DOWNLOAD_TIMEOUT, a network error), the
\* pipeline to the local file rejects
Downloads == {"ok", "status", "abort", "transfer"}

\* `filename.toLowerCase().split('.').pop()`
Ext(filename) ==
  CASE filename = "a.png" -> "png"
    [] filename = "b.exe" -> "exe"
    [] filename = "c.txt" -> "txt"

\* isFileSupported(filename).supported, with an image and a text type
isFileSupported(filename) == Ext(filename) \in {"png", "txt"}

\* number of paths in a list that were made for a name
RECURSIVE Count(_, _)
Count(list, name) ==
  IF list = <<>> THEN 0
  ELSE (IF Head(list)[2] = name THEN 1 ELSE 0) + Count(Tail(list), name)

\* downloadSlackFile: the local path, with a counter after a name that
\* exists already
LocalPath(name, paths) == <<"/tmp/claude-slack-files", name, Count(paths, name)>>

\* messageText after line 870-872: the text and the names of the annotation
\* `[Unsupported file types: ...]` (<<>>: no annotation)
Annotate(text, unsupportedFiles) == [text |-> text, names |-> unsupportedFiles]

\* `messageText.trim()` is not empty
NotBlank(messageText) == messageText.text # "" \/ messageText.names # <<>>

NoAttHandler == [pc |-> "none", files |-> <<>>, text |-> "", i |-> 0,
                 filePaths |-> <<>>, unsupportedFiles |-> <<>>, failed |-> {}]

AttQuiet ==
  /\ attHs = NoAttHandler
  /\ attSent = <<>>

\* handleMessage for an inbound with attachments, up to the loop of line 854
AttAccept(files, text) ==
  /\ attHs.pc = "none"
  /\ attHs' = [NoAttHandler EXCEPT !.pc = "files", !.files = files,
                                   !.text = text, !.i = 1]
  /\ UNCHANGED <<attRest, attSent>>

\* downloadSlackFile: the path, null (<<>>), or an exception
downloadSlackFile(name, paths, outcome) ==
  CASE outcome = "ok" -> [throws |-> FALSE, path |-> LocalPath(name, paths)]
    [] outcome \in {"status", "abort"} -> [throws |-> FALSE, path |-> <<>>]
    [] outcome = "transfer" -> [throws |-> TRUE, path |-> <<>>]

\* one turn of the loop of lines 854-866 (`failed`: the positions of the
\* attachments whose download did not give a path)
AttFile(outcome) ==
  /\ attHs.pc = "files"
  /\ attHs.i <= Len(attHs.files)
  /\ LET file == attHs.files[attHs.i] IN
     IF isFileSupported(file)
     THEN LET localPath == downloadSlackFile(file, attHs.filePaths, outcome) IN
          IF localPath.throws
          THEN attHs' = [attHs EXCEPT !.pc = "thrown",
                                      !.failed = @ \cup {attHs.i}]
          ELSE IF localPath.path = <<>>
          THEN attHs' = [attHs EXCEPT !.i = @ + 1, !.failed = @ \cup {attHs.i}]
          ELSE attHs' = [attHs EXCEPT !.i = @ + 1,
                                      !.filePaths = Append(@, localPath.path)]
     ELSE attHs' = [attHs EXCEPT !.i = @ + 1,
                                 !.unsupportedFiles = Append(@, file)]
  /\ UNCHANGED <<attRest, attSent>>

\* handleMessage from line 870 to its end: the annotation, then each path and
\* the text through sendToWindow
AttSend ==
  /\ attHs.pc = "files"
  /\ attHs.i > Len(attHs.files)
  /\ LET messageText == Annotate(attHs.text, attHs.unsupportedFiles) IN
     attSent' = [k \in 1..Len(attHs.filePaths) |-> <<"file", attHs.filePaths[k]>>]
                \o (IF NotBlank(messageText)
                    THEN << <<"text", messageText>> >> ELSE <<>>)
  /\ attHs' = [attHs EXCEPT !.pc = "done"]
  /\ UNCHANGED attRest

\* ------------------------------------------------------------------------
\* Reactions
\* ------------------------------------------------------------------------
MaxReactions == 2

\* event.reaction: the names the handler knows, and one it does not
Reactions == {"octagonal_sign", "stop_sign", "no_entry", "white_check_mark",
              "heavy_check_mark", "x", "negative_squared_cross_mark", "thumbsup"}

\* event.item.ts: the root message of a thread, or a reply in a thread
\* (NThreads + t is a reply in thread t)
Items == 1..(2 * NThreads)

ReactQuiet ==
  /\ reactReg = <<>>
  /\ reactWin = {}
  /\ reactKeys = <<>>
  /\ reactPosts = <<>>
  /\ reactEvents = <<>>

ReactInit ==
  /\ reactReg \in [Threads -> {"absent", "active", "terminated"}]
  /\ reactWin = {t \in Threads : reactReg[t] = "active"}
  /\ reactKeys = <<>>
  /\ reactPosts = <<>>
  /\ reactEvents = <<>>

\* `sessions[threadTs]`: the registry is keyed by the root message of a thread
SessionOf(sessions, ts) == IF ts \in Threads THEN sessions[ts] ELSE "absent"

\* send-keys with Enter after the key
KeysFor_Enter(reaction) ==
  IF reaction \in {"white_check_mark", "heavy_check_mark"} THEN <<"1", "Enter">>
  ELSE IF reaction \in {"x", "negative_squared_cross_mark"} THEN <<"Escape">>
  ELSE <<>>

\* the keys of lines 1306 and 1317
KeysFor(reaction) ==
  IF reaction \in {"white_check_mark", "heavy_check_mark"} THEN <<"1">>
  ELSE IF reaction \in {"x", "negative_squared_cross_mark"} THEN <<"Escape">>
  ELSE <<>>

\* reaction_added, whole: it has no await before its last statement
React(u, item, reaction) ==
  /\ Len(reactEvents) < MaxReactions
  /\ reactEvents' = Append(reactEvents, [user |-> u, item |-> item,
                                         reaction |-> reaction])
  /\ LET session == SessionOf(reactReg, item) IN
     IF \/ ~isAuthorized(u)
        \/ session = "absent"
        \/ session = "terminated"
     THEN UNCHANGED <<reactReg, reactWin, reactKeys, reactPosts>>
     ELSE IF reaction \in {"octagonal_sign", "stop_sign", "no_entry"}
     THEN \* terminateSession and the confirmation
          /\ reactWin' = reactWin \ {item}
          /\ reactReg' = [reactReg EXCEPT ![item] = "terminated"]
          /\ reactPosts' = Append(reactPosts, item)
          /\ UNCHANGED reactKeys
     ELSE IF KeysFor(reaction) # <<>>
     THEN /\ reactKeys' = Append(reactKeys, <<item, KeysFor(reaction)>>)
          /\ UNCHANGED <<reactReg, reactWin, reactPosts>>
     ELSE UNCHANGED <<reactReg, reactWin, reactKeys, reactPosts>>
  /\ UNCHANGED <<reactRest, allowedUsers>>

\* the window of a session is closed from outside
ReactWindowDies(t) ==
  /\ t \in reactWin
  /\ reactWin' = reactWin \ {t}
  /\ UNCHANGED <<reactRest, allowedUsers, reactReg, reactKeys, reactPosts,
                 reactEvents>>

\* ------------------------------------------------------------------------
\* Bot commands
\* ------------------------------------------------------------------------
MaxCmds == 2

\* message.text after trim(), as its words; "w1" is the name of the window of
\* thread 1's session
CmdTexts == {<<"!kill">>, <<"!Kill">>, <<"!status">>, <<"!sessions">>,
             <<"!kill", "w1">>, <<"!foo">>, <<"hello">>}

\* toLowerCase() of a word
LowerWord(w) == IF w = "!Kill" THEN "!kill" ELSE w
\* text.toLowerCase()
toLowerCase(text) == [k \in 1..Len(text) |-> LowerWord(text[k])]

\* text.startsWith('!')
StartsWithBang(text) == text[1] # "hello"

\* the thread whose session has the window of this name, 0 for none
WindowNamed(name) == IF name = "w1" THEN 1 ELSE 0

CmdQuiet ==
  /\ cmdReg = <<>>
  /\ cmdPosts = <<>>
  /\ cmdInjected = <<>>
  /\ cmdEvents = <<>>

CmdInit ==
  /\ cmdReg \in [Threads -> {"absent", "active", "terminated"}]
  /\ cmdPosts = <<>>
  /\ cmdInjected = <<>>
  /\ cmdEvents = <<>>

\* `isThread && sessions[message.thread_ts]`
isClaudeSession(sessions, t, isThread) == isThread /\ sessions[t] # "absent"

\* a test for !kill that also takes what follows the word
IsKill_Prefix(text) == toLowerCase(text)[1] = "!kill"

\* `text.toLowerCase() === '!kill'`
IsKill(text) == toLowerCase(text) = <<"!kill">>

\* `text.toLowerCase() === '!status'`
IsStatus(text) == toLowerCase(text) = <<"!status">>

\* handleBotCommand: the command it takes the text for, "none" when it
\* returns false (!sessions, !status, !kill <window>; !find and !help are
\* recognized in the same way as !sessions)
Command(text) ==
  LET cmd == toLowerCase(text) IN
  IF cmd = <<"!sessions">> THEN "sessions"
  ELSE IF cmd = <<"!status">> THEN "status"
  ELSE IF Len(cmd) >= 2 /\ cmd[1] = "!kill" THEN "kill"
  ELSE "none"

\* killSession: the registry after `!kill <window>`
killSession(sessions, windowName) ==
  LET t == WindowNamed(windowName) IN
  IF t # 0 /\ sessions[t] \notin {"absent", "terminated"}
  THEN [sessions EXCEPT ![t] = "terminated"]
  ELSE sessions

\* handleMessage for thread t, from the registry's side: a thread without a
\* non-terminated session gets one (the limit of 5 is out of reach here), a
\* session that waits becomes active, and the text is typed into the window
ForwardTo(sessions, t) ==
  [sessions EXCEPT ![t] = IF @ \in {"absent", "terminated"} THEN "starting"
                          ELSE IF @ = "starting" THEN @ ELSE "active"]

\* app.message for a message with the (trimmed) text `text`: a reply in
\* thread t (isThread), or the root message that starts thread t
AppCommand(t, isThread, text) ==
  /\ Len(cmdEvents) < MaxCmds
  /\ isThread \/ cmdReg[t] = "absent"
  /\ cmdEvents' = Append(cmdEvents, [thread |-> t, isThread |-> isThread,
                                     text |-> text])
  /\ IF IsKill(text) /\ isClaudeSession(cmdReg, t, isThread)
     THEN /\ cmdReg' = [cmdReg EXCEPT ![t] = "terminated"]
          /\ cmdPosts' = Append(cmdPosts,
                                <<t, IF cmdReg[t] # "terminated"
                                     THEN "terminated" ELSE "already">>)
          /\ UNCHANGED cmdInjected
     ELSE IF IsStatus(text) /\ isClaudeSession(cmdReg, t, isThread)
     THEN /\ cmdPosts' = Append(cmdPosts, <<t, "info">>)
          /\ UNCHANGED <<cmdReg, cmdInjected>>
     ELSE IF /\ StartsWithBang(text) /\ ~isClaudeSession(cmdReg, t, isThread)
             /\ Command(text) # "none"
     THEN /\ cmdPosts' = Append(cmdPosts, <<t, Command(text)>>)
          /\ cmdReg' = IF Command(text) = "kill"
                       THEN killSession(cmdReg, text[2]) ELSE cmdReg
          /\ UNCHANGED cmdInjected
     ELSE /\ cmdReg' = ForwardTo(cmdReg, t)
          /\ cmdInjected' = Append(cmdInjected, <<t, text>>)
          /\ UNCHANGED cmdPosts
  /\ UNCHANGED cmdRest

\* ------------------------------------------------------------------------
\* Startup
\* ------------------------------------------------------------------------
MaxSeen == 2

StartStatuses == {"absent", "starting", "active", "idle", "terminated"}

NoStartTask == [pc |-> "none", sessions |-> <<>>, todo |-> {}, listed |-> <<>>]

StartQuiet ==
  /\ startReg = <<>>
  /\ startWin = {}
  /\ startTask = NoStartTask
  /\ startSeen = 0

\* The bridge process has been started: what the last run and tmux left
StartInit ==
  /\ startReg \in [Threads -> StartStatuses]
  /\ startWin \in SUBSET Threads
  /\ startTask = [NoStartTask EXCEPT !.pc = "boot"]
  /\ startSeen = 0

\* reconnectSessions, the loop body with a window found for every session
Reconcile_Keep(status, exists) == status

\* reconnectSessions, the loop body: the status of an entry after it
Reconcile(status, exists) ==
  IF status = "terminated" THEN status
  ELSE IF exists THEN status
  ELSE "terminated"

\* reconnectSessions: loadSessions
StartLoad ==
  /\ startTask.pc = "boot"
  /\ startTask' = [pc |-> "loop", sessions |-> startReg,
                   todo |-> {t \in Threads : startReg[t] # "absent"},
                   listed |-> [t \in Threads |-> "unchecked"]]
  /\ UNCHANGED <<startRest, startReg, startWin, startSeen>>

\* one turn of the loop: tmuxWindowExists runs tmux list-windows (`listed`
\* keeps what it answered for a session that is not terminated)
StartCheck(t) ==
  /\ startTask.pc = "loop"
  /\ t \in startTask.todo
  /\ \A u \in startTask.todo : t <= u
  /\ LET status == startTask.sessions[t]
         exists == t \in startWin
     IN startTask' = [startTask EXCEPT
                        !.todo = @ \ {t},
                        !.sessions[t] = Reconcile(status, exists),
                        !.listed[t] = IF status = "terminated" THEN "unchecked"
                                      ELSE IF exists THEN "yes" ELSE "no"]
  /\ UNCHANGED <<startRest, startReg, startWin, startSeen>>

\* the end of reconnectSessions (saveSessions if changed), the timers and
\* app.start()
StartSave ==
  /\ startTask.pc = "loop"
  /\ startTask.todo = {}
  /\ startReg' = IF \E t \in Threads : startTask.sessions[t] # startReg[t]
                 THEN startTask.sessions ELSE startReg
  /\ startTask' = [startTask EXCEPT !.pc = "running"]
  /\ UNCHANGED <<startRest, startWin, startSeen>>

\* a chat event is delivered to a handler, or a sweep timer fires: app.start
\* and the setInterval calls come after reconnectSessions
StartEvent ==
  /\ startTask.pc = "running"
  /\ startSeen < MaxSeen
  /\ startSeen' = startSeen + 1
  /\ UNCHANGED <<startRest, startReg, startWin, startTask>>

\* a window is closed while the bridge starts
StartWindowDies(t) ==
  /\ t \in startWin
  /\ startWin' = startWin \ {t}
  /\ UNCHANGED <<startRest, startReg, startTask, startSeen>>

\* ------------------------------------------------------------------------
\* Sweep errors
\* ------------------------------------------------------------------------
MaxSweeps == 2

\* the two sweeps that work on sessions
SweepKinds == {"idle", "health"}

NoErrTask == [pc |-> "none", kind |-> "none", sessions |-> <<>>, todo |-> {},
              changed |-> FALSE]

\* an exception has left a timer callback: Node prints it and exits (there is
\* no uncaughtException handler)
Exited == [NoErrTask EXCEPT !.pc = "exited"]

ErrQuiet ==
  /\ errReg = <<>>
  /\ errWin = {}
  /\ errTask = NoErrTask
  /\ errRuns = 0

\* sessions that are idle have been idle for longer than the timeout
ErrInit ==
  /\ errReg \in [Threads -> {"active", "idle", "terminated"}]
  /\ errWin \in SUBSET {t \in Threads : errReg[t] # "terminated"}
  /\ errTask = NoErrTask
  /\ errRuns = 0

\* the sessions a sweep works on: those idle for too long, those not terminated
Due(kind, sessions) ==
  IF kind = "idle" THEN {t \in Threads : sessions[t] = "idle"}
  ELSE {t \in Threads : sessions[t] # "terminated"}

\* a timer fires: loadSessions (which catches its errors)
ErrSweepStart(kind) ==
  /\ errTask.pc = "none"
  /\ errRuns < MaxSweeps
  /\ errRuns' = errRuns + 1
  /\ errTask' = [pc |-> "loop", kind |-> kind, sessions |-> errReg,
                 todo |-> Due(kind, errReg), changed |-> FALSE]
  /\ UNCHANGED <<errRest, errReg, errWin>>

\* idle sweep, one session: terminateSession.  An error of kill-window is
\* caught (588-592); one of saveSessions (601) is not
ErrTerminate(t, killFails, saveFails) ==
  /\ errTask.pc = "loop" /\ errTask.kind = "idle"
  /\ t \in errTask.todo
  /\ \A u \in errTask.todo : t <= u
  /\ errWin' = IF killFails THEN errWin ELSE errWin \ {t}
  /\ IF saveFails
     THEN /\ errTask' = Exited
          /\ UNCHANGED errReg
     ELSE /\ errReg' = [errReg EXCEPT ![t] = "terminated"]
          /\ errTask' = [errTask EXCEPT !.todo = @ \ {t}]
  /\ UNCHANGED <<errRest, errRuns>>

\* health check, one session: tmuxWindowExists catches an error of
\* list-windows and answers false
ErrCheck(t, listFails) ==
  /\ errTask.pc = "loop" /\ errTask.kind = "health"
  /\ t \in errTask.todo
  /\ \A u \in errTask.todo : t <= u
  /\ LET exists == ~listFails /\ t \in errWin IN
     errTask' = [errTask EXCEPT
                   !.todo = @ \ {t},
                   !.sessions[t] = IF exists THEN @ ELSE "terminated",
                   !.changed = @ \/ ~exists]
  /\ UNCHANGED <<errRest, errReg, errWin, errRuns>>

\* the end of the callback; the health check saves its map if it changed
\* (669-671), with nothing around saveSessions
ErrSweepEnd(saveFails) ==
  /\ errTask.pc = "loop"
  /\ errTask.todo = {}
  /\ IF errTask.kind = "health" /\ errTask.changed
     THEN IF saveFails
          THEN /\ errTask' = Exited
               /\ UNCHANGED errReg
          ELSE /\ errReg' = errTask.sessions
               /\ errTask' = NoErrTask
     ELSE /\ errTask' = NoErrTask
          /\ UNCHANGED errReg
  /\ UNCHANGED <<errRest, errWin, errRuns>>

\* ------------------------------------------------------------------------
\* Keystrokes
\* ------------------------------------------------------------------------
\* One window and the calls that type into it: sendToWindow calls of message
\* handlers of the window's thread, and approve/reject reactions on its root
\* message.  A call sends its keys in bursts: the send-keys commands it runs
\* between two awaits reach tmux with nothing in between.
MaxCalls == 2
Calls == 1..MaxCalls

\* the texts typed in this section: a word, then only "fix" or "3"
SendTexts ==
  {text \in Texts : /\ Len(text) >= 1
                    /\ \A k \in 2..Len(text) : text[k] \in {"fix", "3"}}

\* `tmux send-keys <name>` and `tmux send-keys -l '<text>'`
Key(name) == [kind |-> "key", v |-> <<name>>]
Lit(text) == [kind |-> "lit", v |-> text]

DigitList == <<"1", "2", "3", "4", "5", "6", "7", "8", "9">>
DottedList == <<"1.", "2.", "3.", "4.", "5.", "6.", "7.", "8.", "9.">>

\* parseInt(key, 10) of a digit
parseInt(key) == CHOOSE i \in 1..9 : DigitList[i] = key

\* an option that is always the first one
optionKey_First(text) == "1"

\* parseOptionWithInstructions(text).optionKey: the captured digit, '1' for
\* yes/y, '3' for no/n
optionKey(text) ==
  IF text[1] \in Digits THEN text[1]
  ELSE IF text[1] \in DottedDigits
  THEN DigitList[CHOOSE i \in 1..9 : DottedList[i] = text[1]]
  ELSE IF Lower(text[1]) \in {"yes", "y"} THEN "1"
  ELSE "3"

\* parseOptionWithInstructions(text).instructions: what follows the \s+
instructions(text) == Tail(text)

\* an option key that is followed by Enter
getOptionKey_Enter(text) == <<"1", "Enter">>

\* getOptionKey: the digit, '1' for yes/y, '3' for no/n
getOptionKey(text) ==
  LET normalized == Lower(text[1]) IN
  IF normalized \in Digits THEN <<normalized>>
  ELSE IF normalized \in {"yes", "y"} THEN <<"1">>
  ELSE IF normalized \in {"no", "n"} THEN <<"3">>
  ELSE <<>>

\* sendToWindow: the bursts of keys it sends, in order
sendToWindow(text) ==
  IF hasInstructions(text)
  THEN LET optionNum == parseInt(optionKey(text)) IN
       [i \in 1..(optionNum - 1) |-> <<Key("Down")>>]
         \o << <<Key("Tab")>>, <<Lit(instructions(text))>>, <<Key("Enter")>> >>
  ELSE IF isOptionSelection(text) /\ getOptionKey(text) # <<>>
  THEN << [k \in 1..Len(getOptionKey(text)) |-> Key(getOptionKey(text)[k])] >>
  ELSE << <<Lit(text), Key("Enter")>>, <<Key("Enter")>> >>

NoCall == [pc |-> "none", by |-> "none", text |-> <<>>, todo |-> <<>>]

SendQuiet ==
  /\ sendHs = <<>>
  /\ sendLog = <<>>

SendInit ==
  /\ sendHs = [c \in Calls |-> NoCall]
  /\ sendLog = <<>>

\* the keys of one burst as tmux receives them from call c
Delivered(c, burst) == [k \in 1..Len(burst) |-> [call |-> c, key |-> burst[k]]]

\* calls begin in the order of their events
MayBegin(c) ==
  /\ sendHs[c].pc = "none"
  /\ c > 1 => sendHs[c - 1].pc # "none"

\* handleMessage reaches `await sendToWindow(session.window, ...)`: the call
\* runs up to its first await
SendBegin(c, text) ==
  /\ MayBegin(c)
  /\ LET bursts == sendToWindow(text) IN
     /\ sendLog' = sendLog \o Delivered(c, Head(bursts))
     /\ sendHs' = [sendHs EXCEPT ![c] =
                     [pc |-> IF Len(bursts) = 1 THEN "done" ELSE "sending",
                      by |-> "message", text |-> text, todo |-> Tail(bursts)]]
  /\ UNCHANGED sendRest

\* the timer of an await fires: the call runs up to its next await
SendStep(c) ==
  /\ sendHs[c].pc = "sending"
  /\ LET todo == sendHs[c].todo IN
     /\ sendLog' = sendLog \o Delivered(c, Head(todo))
     /\ sendHs' = [sendHs EXCEPT ![c] =
                     [@ EXCEPT !.pc = IF Len(todo) = 1 THEN "done" ELSE "sending",
                               !.todo = Tail(todo)]]
  /\ UNCHANGED sendRest

\* reaction_added with an approve or reject reaction on the root message of
\* the window's thread: one send-keys, lines 1303-1322
SendReaction(c, reaction) ==
  /\ MayBegin(c)
  /\ KeysFor(reaction) # <<>>
  /\ sendLog' = sendLog \o Delivered(c, <<Key(KeysFor(reaction)[1])>>)
  /\ sendHs' = [sendHs EXCEPT ![c] =
                  [pc |-> "done", by |-> "reaction", text |-> <<reaction>>,
                   todo |-> <<>>]]
  /\ UNCHANGED sendRest

\* ------------------------------------------------------------------------
\* Trust timer
\* ------------------------------------------------------------------------
\* createSession / resurrectSession arm a timer that types '1' after
\* TRUST_PROMPT_DELAY; handleMessage goes on to waitForClaudeReady (section
\* "Readiness") and then types the inbound.  `elapsed` is the time of the
\* handler's next poll, counted from the start of the wait; for a message
\* with no attachment and no directory warning the wait starts as soon as
\* createSession has returned, so the timer expires when `elapsed` reaches
\* TRUST_PROMPT_DELAY.
TRUST_PROMPT_DELAY == 2000
CLAUDE_READY_SETTLE == 200

TrustQuiet == trustTimer = "none"

TrustInit ==
  /\ ReadyInit
  /\ trustTimer = "armed"

\* the time at which the handler takes its next step: the next poll, or the
\* end of the settle delay once the pane showed the assistant ready
NextStepAt ==
  IF readyHs.pc = "ready" THEN elapsed + CLAUDE_READY_SETTLE ELSE elapsed

\* the timer has expired and its callback runs before the handler's next step
TimerDue == trustTimer = "armed" /\ NextStepAt >= TRUST_PROMPT_DELAY

\* the callback of the setTimeout: send-keys '1' (a failure is swallowed)
TrustFire ==
  /\ trustTimer = "armed"
  /\ readyHs.pc = "sent" \/ TimerDue
  /\ trustTimer' = IF readyHs.pc = "sent" THEN "after" ELSE "before"
  /\ UNCHANGED <<trustRest, readyVars>>

\* the steps of waitForClaudeReady and the injection, in timer order
TrustPoll == ~TimerDue /\ ReadyPoll
TrustTimedOut == ~TimerDue /\ ReadyTimedOut
TrustSend == ~TimerDue /\ ReadySend

\* ------------------------------------------------------------------------
\* Inbound
\* ------------------------------------------------------------------------
\* The inbounds of one thread, from the guard of handleMessage to the
\* injection, next to the assistant of the thread's window and its notify
\* hook.  The creation of the session (core) is one step here.
MaxInbound == 2
Inbounds == 1..MaxInbound
MaxPaths == 2

\* message.text: no text, blanks only, a free text, a rejection, an approval
InTexts == {<<>>, <<" ">>, <<"fix">>, <<"3">>, <<"1">>}

\* the local paths of the downloaded attachments, in order
InPathNames == <<"/tmp/claude-slack-files/a.png", "/tmp/claude-slack-files/c.txt",
                 "/tmp/claude-slack-files/a_1.png", "/tmp/claude-slack-files/c_1.txt">>
InPaths == [k \in 1..MaxPaths |-> <<InPathNames[k]>>]

\* `[Unsupported file types: ...]`, appended after a blank line
Note == "[Unsupported]"

\* trim() of a text in words: the blanks at its ends go
InTrim(text) == SelectSeq(text, LAMBDA w : w # " ")

\* a guard that lets every inbound through
IsEmptyInbound_Never(text, files) == FALSE

\* line 763: `!message.text && (!message.files || message.files.length === 0)`
IsEmptyInbound(text, files) == text = <<>> /\ files = 0

\* lines 870-872: messageText with the annotation of the unsupported files
MessageText(text, note) == IF note THEN text \o <<Note>> ELSE text

\* isRejectionOption: trim().toLowerCase() is 3, n or no
isRejectionOption(text) ==
  Len(InTrim(text)) = 1 /\ Lower(InTrim(text)[1]) \in {"3", "n", "no"}

\* the keys of all bursts of a sendToWindow call
RECURSIVE Flatten(_)
Flatten(bursts) ==
  IF bursts = <<>> THEN <<>> ELSE Head(bursts) \o Flatten(Tail(bursts))

Effect(kind, v) == [kind |-> kind, v |-> v]

\* the keys first, the pending-hash after them
Typing_KeysFirst(hashed, typed_) ==
  <<Effect("keys", Flatten(sendToWindow(typed_))), Effect("hash", Md5(InTrim(hashed)))>>

\* writeFileSync of the pending-hash, then sendToWindow (lines 890-892, 920-924)
Typing(hashed, typed_) ==
  <<Effect("hash", Md5(InTrim(hashed))), Effect("keys", Flatten(sendToWindow(typed_)))>>

\* the assistant after keys have reached its window: a plain rejection of a
\* prompt ends its turn, everything else makes (or keeps) it busy
AfterKeys(state, rejects) ==
  IF state = "prompt" /\ rejects THEN "idle" ELSE "busy"

NoRecord == [status |-> "absent", lastMessageTs |-> 0, pendingPermission |-> FALSE]
NoInbound == [pc |-> "none", text |-> <<>>, paths |-> 0, note |-> FALSE, i |-> 0,
              session |-> NoRecord, log |-> <<>>, rewritten |-> FALSE]
NoHook == [pc |-> "none", ts |-> 0]

InQuiet ==
  /\ inReg = NoRecord
  /\ inHs = <<>>
  /\ eyes = {}
  /\ asst = "none"
  /\ inHook = NoHook

\* the thread is new, or has a session whose assistant is idle
InInit ==
  /\ inReg \in {NoRecord, [NoRecord EXCEPT !.status = "active"]}
  /\ inHs = [m \in Inbounds |-> NoInbound]
  /\ eyes = {}
  /\ asst = IF inReg.status = "absent" THEN "none" ELSE "idle"
  /\ inHook = NoHook

\* handleMessage from its guard to its first await after the session is
\* there (lines 758-866): return on an empty inbound; else load the registry,
\* create the session when the thread has none, touch the record
InAccept(m, text, paths, note) ==
  /\ inHs[m].pc = "none"
  /\ m > 1 => inHs[m - 1].pc # "none"
  /\ LET files == paths + (IF note THEN 1 ELSE 0) IN
     IF IsEmptyInbound(text, files)
     THEN /\ inHs' = [inHs EXCEPT ![m] = [NoInbound EXCEPT !.pc = "done"]]
          /\ UNCHANGED <<inReg, asst>>
     ELSE LET session == [inReg EXCEPT !.status = "active"] IN
          /\ inReg' = IF inReg.status = "absent" THEN session ELSE inReg
          /\ asst' = IF inReg.status = "absent" THEN "idle" ELSE asst
          /\ inHs' = [inHs EXCEPT ![m] =
                        [NoInbound EXCEPT !.pc = IF paths > 0 THEN "files" ELSE "eyes",
                                          !.text = text, !.paths = paths,
                                          !.note = note, !.i = 1,
                                          !.session = session]]
  /\ UNCHANGED <<inRest, eyes, inHook>>

\* one turn of the loop of lines 886-895: the pending-hash of the path, the
\* path through sendToWindow, the FILE_PASTE_DELAY
InFile(m) ==
  /\ inHs[m].pc = "files"
  /\ LET h == inHs[m] IN
     /\ inHs' = [inHs EXCEPT ![m] =
                   [h EXCEPT !.log = @ \o Typing(InPaths[h.i], InPaths[h.i]),
                             !.i = @ + 1,
                             !.pc = IF h.i = h.paths THEN "eyes" ELSE "files"]]
     /\ asst' = AfterKeys(asst, FALSE)
  /\ UNCHANGED <<inRest, inReg, eyes, inHook>>

\* lines 898-942 from the end of `await addReaction`: lastMessageTs and the
\* save of the handler's map, the rewrite and the clearing of the flag, the
\* pending-hash, sendToWindow, the timer of a rejection
InEyes(m) ==
  /\ inHs[m].pc = "eyes"
  /\ LET h == inHs[m]
         messageText == MessageText(h.text, h.note)
         stored == [h.session EXCEPT !.lastMessageTs = m]
         types == InTrim(messageText) # <<>>
         toSend == textToSend(h.session.pendingPermission, InTrim(messageText))
     IN
     /\ eyes' = eyes \cup {m}
     /\ inReg' = IF types THEN [stored EXCEPT !.pendingPermission = FALSE]
                 ELSE stored
     /\ asst' = IF types
                THEN AfterKeys(asst, isOptionSelection(toSend)
                                       /\ getOptionKey(toSend) = <<"3">>)
                ELSE asst
     /\ inHs' = [inHs EXCEPT ![m] =
                   [h EXCEPT
                      !.log = @ \o <<Effect("eyes", <<>>), Effect("store", <<>>)>>
                                \o (IF types THEN Typing(messageText, toSend)
                                    ELSE <<>>),
                      !.rewritten = types /\ toSend # InTrim(messageText),
                      !.pc = IF types /\ isRejectionOption(messageText)
                             THEN "timer" ELSE "done"]]
  /\ UNCHANGED <<inRest, inHook>>

\* the setTimeout of lines 929-941: reactions.remove of the eyes
InRejectTimer(m) ==
  /\ inHs[m].pc = "timer"
  /\ eyes' = eyes \ {m}
  /\ inHs' = [inHs EXCEPT ![m].pc = "done"]
  /\ UNCHANGED <<inRest, inReg, asst, inHook>>

\* an approve or reject reaction answers the prompt: lines 1302-1322
InReaction(reaction) ==
  /\ asst = "prompt"
  /\ inReg.status = "active"
  /\ KeysFor(reaction) # <<>>
  /\ asst' = AfterKeys(asst, KeysFor(reaction) = <<"Escape">>)
  /\ UNCHANGED <<inRest, inReg, inHs, eyes, inHook>>

\* the assistant asks for a permission; the hook's Notification
\* (permission_prompt) branch: the eyes of lastMessageTs go, the flag is set
AsstPrompt ==
  /\ asst = "busy"
  /\ inHook.pc = "none"
  /\ asst' = "prompt"
  /\ eyes' = eyes \ {inReg.lastMessageTs}
  /\ inReg' = [inReg EXCEPT !.pendingPermission = TRUE]
  /\ UNCHANGED <<inRest, inHs, inHook>>

\* the hook's Stop and idle_prompt branches up to reactions.remove: the flag
\* is deleted, lastMessageTs is read and its eyes are removed
HookClear ==
  /\ inHook.pc = "none"
  /\ eyes' = eyes \ {inReg.lastMessageTs}
  /\ inReg' = [inReg EXCEPT !.pendingPermission = FALSE]
  /\ inHook' = IF inReg.lastMessageTs # 0
               THEN [pc |-> "del", ts |-> inReg.lastMessageTs] ELSE NoHook
  /\ UNCHANGED <<inRest, inHs>>

\* the assistant ends its turn: the Stop event
AsstStop ==
  /\ asst = "busy"
  /\ asst' = "idle"
  /\ HookClear

\* the assistant has been idle for a while: Notification (idle_prompt)
AsstIdle ==
  /\ asst = "idle"
  /\ inReg.lastMessageTs # 0 \/ inReg.pendingPermission
  /\ asst' = asst
  /\ HookClear

\* the hook's last update: `del(.[$ts].lastMessageTs)`
HookClearEnd ==
  /\ inHook.pc = "del"
  /\ inReg' = [inReg EXCEPT !.lastMessageTs = 0]
  /\ inHook' = NoHook
  /\ UNCHANGED <<inRest, inHs, eyes, asst>>

\* ------------------------------------------------------------------------
\* Specification
\* ------------------------------------------------------------------------
\* every section but the named one is at rest
QuietBut(section) ==
  /\ IF section = "idle" THEN TRUE ELSE IdleQuiet
  /\ IF section \in {"auth", "react"} THEN TRUE ELSE AuthQuiet
  /\ IF section = "lock" THEN TRUE ELSE LockQuiet
  /\ IF section = "stop" THEN TRUE ELSE StopQuiet
  /\ IF section = "perm" THEN TRUE ELSE PermQuiet
  /\ IF section = "hash" THEN TRUE ELSE HashQuiet
  /\ IF section \in {"ready", "trust"} THEN TRUE ELSE ReadyQuiet
  /\ IF section = "att" THEN TRUE ELSE AttQuiet
  /\ IF section = "react" THEN TRUE ELSE ReactQuiet
  /\ IF section = "cmd" THEN TRUE ELSE CmdQuiet
  /\ IF section = "start" THEN TRUE ELSE StartQuiet
  /\ IF section = "err" THEN TRUE ELSE ErrQuiet
  /\ IF section = "send" THEN TRUE ELSE SendQuiet
  /\ IF section = "trust" THEN TRUE ELSE TrustQuiet
  /\ IF section = "in" THEN TRUE ELSE InQuiet

Init == CoreInit /\ QuietBut("core")

Next ==
  \/ \E m \in Msgs, t \in Threads, d \in Dirs \cup {"none"} : Receive(m, t, d)
  \/ \E m \in Msgs : CreateResume(m)
  \/ \E m \in Msgs : LimitDone(m)
  \/ \E m \in Msgs : WaitResume(m)
  \/ \E m \in Msgs : Inject(m)
  \/ \E t \in Threads : ReactionStop(t)
  \/ \E t \in Threads : IdleSweep(t)
  \/ HealthLoad
  \/ HealthSave
  \/ \E w \in Wins : WindowDies(w)
  \/ \E w \in Wins : HookStopRename(w)
  \/ \E w \in Wins : HookStopUpdate(w)
  \/ \E w \in Wins : HookStop(w)
  \/ \E w \in Wins : HookIdle(w)

Spec == Init /\ [][Next]_vars

\* The first start of the bridge (no registry file, no windows, maxConcurrent
\* at its default), with the local launcher in use next to the
\* bridge, over a period in which no window dies and no sweep timer fires
InitFresh ==
  /\ Init
  /\ registry = EmptyRegistry
  /\ maxConcurrent = DefaultMaxConcurrent

NextLocal ==
  \/ \E m \in Msgs, t \in Threads, d \in Dirs \cup {"none"} : Receive(m, t, d)
  \/ \E m \in Msgs : CreateResume(m)
  \/ \E m \in Msgs : WaitResume(m)
  \/ \E m \in Msgs : Inject(m)
  \/ \E t \in Threads : ReactionStop(t)
  \/ \E w \in Wins : HookStopRename(w)
  \/ \E w \in Wins : HookStopUpdate(w)
  \/ \E w \in Wins : HookStop(w)
  \/ \E w \in Wins : HookIdle(w)
  \/ \E t \in Threads, d \in Dirs, msg \in BOOLEAN : LocalStart(t, d, msg)
  \/ \E t \in Threads : LocalResume(t)

SpecLocal == InitFresh /\ [][NextLocal]_vars

\* The bridge with no session of the core in play
CoreQuiet ==
  /\ CoreInit
  /\ registry = EmptyRegistry
  /\ maxConcurrent = DefaultMaxConcurrent

\* The idle timeout: inbound messages, hook events and the idle sweep
InitIdle == CoreQuiet /\ IdleInit /\ QuietBut("idle")

NextIdle ==
  \/ IdleTick
  \/ \E t \in Threads : IdlePrompt(t)
  \/ \E t \in Threads : IdleFirstStop(t)
  \/ \E t \in Threads : IdleAccept(t)
  \/ IdleSaved
  \/ SweepLoad
  \/ \E t \in Threads : SweepTerminate(t)
  \/ SweepEnd

SpecIdle == InitIdle /\ [][NextIdle]_vars

\* Authorization: events of any kind from any user, under any allow-list
InitAuth == CoreQuiet /\ AuthInit /\ QuietBut("auth")

NextAuth ==
  \/ \E u \in Users : AppMessage(u)
  \/ \E u \in Users : AppMention(u)
  \/ \E u \in Users : ReactionAdded(u)
  \/ \E u \in Users : SlashCommand(u)
  \/ \E u \in Users : SlashHelp(u)

SpecAuth == InitAuth /\ [][NextAuth]_vars

\* Instance lock: bridge processes started with one bot token
InitLock == CoreQuiet /\ LockInit /\ QuietBut("lock")

NextLock ==
  \/ \E p \in Procs : LockCheck(p)
  \/ \E p \in Procs : LockWrite(p)
  \/ \E p \in Procs : LockCleanup(p)
  \/ \E p \in Procs : LockKilled(p)

SpecLock == InitLock /\ [][NextLock]_vars

\* Stop reactions on threads with and without a session
InitStop == CoreQuiet /\ StopInit /\ QuietBut("stop")

NextStop ==
  \/ \E t \in Threads : StopReaction(t)
  \/ \E t \in Threads : StopResurrect(t)
  \/ \E t \in Threads : StopWindowDies(t)

SpecStop == InitStop /\ [][NextStop]_vars

\* Inbound texts for a session that may be showing a permission prompt
InitPerm == CoreQuiet /\ PermInit /\ QuietBut("perm")

NextPerm ==
  \/ PermissionPrompt
  \/ PermIdlePrompt
  \/ \E text \in Texts : PermAccept(text)
  \/ PermInject

SpecPerm == InitPerm /\ [][NextPerm]_vars

\* Echo suppression: the bridge and the user type into one window
InitHash == CoreQuiet /\ HashQuiet /\ QuietBut("hash")

NextHash ==
  \/ \E text \in Inputs : HashInject(text)
  \/ \E text \in Inputs : HashLocal(text)
  \/ HashHook

SpecHash == InitHash /\ [][NextHash]_vars

\* Readiness: the first inbound of a new session waits for the assistant.
\* The continuations of the handler are timer callbacks and always run; the
\* pane changes as the assistant pleases.
InitReady == CoreQuiet /\ ReadyInit /\ QuietBut("ready")

NextReady ==
  \/ \E content \in Panes : PaneChanges(content)
  \/ ReadyPoll
  \/ ReadyTimedOut
  \/ ReadySend

SpecReady ==
  /\ InitReady /\ [][NextReady]_vars
  /\ WF_vars(ReadyPoll) /\ WF_vars(ReadyTimedOut) /\ WF_vars(ReadySend)

\* Attachments: one inbound with one or more files
InitAtt == CoreQuiet /\ AttQuiet /\ QuietBut("att")

NextAtt ==
  \/ \E files \in Files, text \in Bodies : AttAccept(files, text)
  \/ \E outcome \in Downloads : AttFile(outcome)
  \/ AttSend

SpecAtt == InitAtt /\ [][NextAtt]_vars

\* Reactions of any user on any message, under any allow-list
InitReact == CoreQuiet /\ AuthInit /\ ReactInit /\ QuietBut("react")

NextReact ==
  \/ \E u \in Users, item \in Items, reaction \in Reactions : React(u, item, reaction)
  \/ \E t \in Threads : ReactWindowDies(t)

SpecReact == InitReact /\ [][NextReact]_vars

\* Direct messages with and without a leading "!", in and outside threads
InitCmd == CoreQuiet /\ CmdInit /\ QuietBut("cmd")

NextCmd ==
  \E t \in Threads, isThread \in BOOLEAN, text \in CmdTexts :
    AppCommand(t, isThread, text)

SpecCmd == InitCmd /\ [][NextCmd]_vars

\* Startup over any registry file and any set of surviving windows
InitStart == CoreQuiet /\ StartInit /\ QuietBut("start")

NextStart ==
  \/ StartLoad
  \/ \E t \in Threads : StartCheck(t)
  \/ StartSave
  \/ StartEvent
  \/ \E t \in Threads : StartWindowDies(t)

SpecStart == InitStart /\ [][NextStart]_vars

\* Sweeps whose calls of tmux and of flock can fail
InitErr == CoreQuiet /\ ErrInit /\ QuietBut("err")

NextErr ==
  \/ \E kind \in SweepKinds : ErrSweepStart(kind)
  \/ \E t \in Threads, killFails, saveFails \in BOOLEAN :
       ErrTerminate(t, killFails, saveFails)
  \/ \E t \in Threads, listFails \in BOOLEAN : ErrCheck(t, listFails)
  \/ \E saveFails \in BOOLEAN : ErrSweepEnd(saveFails)

SpecErr == InitErr /\ [][NextErr]_vars

\* Typing into a window: sendToWindow calls and reactions
InitSend == CoreQuiet /\ SendInit /\ QuietBut("send")

NextSend ==
  \/ \E c \in Calls, text \in SendTexts : SendBegin(c, text)
  \/ \E c \in Calls : SendStep(c)
  \/ \E c \in Calls, reaction \in Reactions : SendReaction(c, reaction)

SpecSend == InitSend /\ [][NextSend]_vars

\* The trust timer against the first injection of a new session
InitTrust == CoreQuiet /\ TrustInit /\ QuietBut("trust")

NextTrust ==
  \/ \E content \in Panes : PaneChanges(content)
  \/ TrustPoll
  \/ TrustTimedOut
  \/ TrustSend
  \/ TrustFire

SpecTrust == InitTrust /\ [][NextTrust]_vars

\* The creation lock on its own: inbound messages, creations that succeed,
\* fail or are refused, and windows that die.  A creation's timer fires, a
\* notice's `await say` settles and a resolved promise's continuation runs.
NextRoute ==
  \/ \E m \in Msgs, t \in Threads, d \in Dirs \cup {"none"} : Receive(m, t, d)
  \/ \E m \in Msgs : CreateResume(m)
  \/ \E m \in Msgs : LimitDone(m)
  \/ \E m \in Msgs : WaitResume(m)
  \/ \E m \in Msgs : Inject(m)
  \/ \E w \in Wins : WindowDies(w)

SpecRoute ==
  /\ Init
  /\ [][NextRoute]_vars
  /\ \A m \in Msgs : /\ WF_vars(CreateResume(m))
                     /\ WF_vars(LimitDone(m))
                     /\ WF_vars(WaitResume(m))

\* The inbounds of one thread, its assistant and the notify hook; awaits
\* settle, timers fire, the hook runs to its end, the assistant ends its
\* turns and the user answers its prompts
InitIn == CoreQuiet /\ InInit /\ QuietBut("in")

NextIn ==
  \/ \E m \in Inbounds, text \in InTexts, paths \in 0..MaxPaths, note \in BOOLEAN :
       InAccept(m, text, paths, note)
  \/ \E m \in Inbounds : InFile(m)
  \/ \E m \in Inbounds : InEyes(m)
  \/ \E m \in Inbounds : InRejectTimer(m)
  \/ \E reaction \in Reactions : InReaction(reaction)
  \/ AsstPrompt
  \/ AsstStop
  \/ AsstIdle
  \/ HookClearEnd

SpecIn ==
  /\ InitIn
  /\ [][NextIn]_vars
  /\ \A m \in Inbounds : /\ WF_vars(InFile(m))
                         /\ WF_vars(InEyes(m))
                         /\ WF_vars(InRejectTimer(m))
  /\ WF_vars(AsstStop)
  /\ WF_vars(AsstIdle)
  /\ WF_vars(\E reaction \in Reactions : InReaction(reaction))
  /\ WF_vars(HookClearEnd)

TypeOK ==
  /\ maxConcurrent \in {1, DefaultMaxConcurrent}
  /\ windowIndex \in 1..(MaxWin + 1)
  /\ creatingSession \subseteq Threads

\* ------------------------------------------------------------------------
\* Properties
\* ------------------------------------------------------------------------
\* the thread a window was opened for
WindowThread(w) ==
  IF windows[w].origin = "bridge" THEN hs[windows[w].creator].thread
  ELSE windows[w].thread

\* windows opened by handler m (createSession / resurrectSession)
CreatedBy(m) == {w \in Wins : windows[w].origin = "bridge" /\ windows[w].creator = m}
\* ... in which the handler has also started the assistant
LaunchedBy(m) == {w \in CreatedBy(m) : windows[w].asst # 0}

\* C1 as stated: of two handleMessage calls on a thread without a
\* non-terminated session, the second arriving while the first is inside its
\* creation, exactly one opens a window, and the second goes on without an
\* error once the first has left its creation.
C1_ExactlyOneCreates ==
  \A m \in Msgs :
    (/\ hs[m].waitedOn # 0
     /\ hs[hs[m].waitedOn].pc \notin {"creating", "limit_say"}
     /\ hs[m].pc \in {"pending", "done"})
      => /\ Cardinality(CreatedBy(m) \cup CreatedBy(hs[m].waitedOn)) = 1
         /\ ~hs[m].failed

\* C1 (amended): a handleMessage call that arrives for a thread without a
\* non-terminated session while another call for the thread is inside its
\* creation opens no window itself, and when the other call's creation has
\* completed, it continues with the record that call saved.
C1_SingleFlight ==
  \A m \in Msgs :
    hs[m].waitedOn # 0
      => /\ CreatedBy(m) = {}
         /\ (hs[m].pc = "pending" /\ LaunchedBy(hs[m].waitedOn) # {})
              => hs[m].sessions[hs[m].thread].created_at \in LaunchedBy(hs[m].waitedOn)

\* a call that waited is about to inject into the session the other call made
C1_Witness ==
  \E m \in Msgs :
    /\ hs[m].waitedOn # 0
    /\ hs[m].pc = "pending"
    /\ hs[m].sessions[hs[m].thread].status = "starting"
    /\ hs[m].sessions[hs[m].thread].created_at \in LaunchedBy(hs[m].waitedOn)

\* C2: in every reachable state the number of registry sessions whose status
\* is not terminated is at most maxConcurrent.
C2_CountWithinLimit == ActiveCount(registry) <= maxConcurrent

\* C3: threads and live windows stay in bijection: no two non-terminated
\* sessions have the same window name, and no thread has two live windows
\* (a window is opened for a thread only when none opened for it earlier is
\* still alive).
C3_Bijection ==
  /\ \A t, u \in Threads :
       (t # u /\ NonTerminated(registry[t]) /\ NonTerminated(registry[u]))
         => registry[t].window # registry[u].window
  /\ \A w, v \in Wins :
       (w # v /\ windows[w].alive /\ windows[v].alive)
         => WindowThread(w) # WindowThread(v)

\* C4: messages of one thread reach the window in arrival order: when the
\* texts of two messages of a thread have both been sent, the one that
\* arrived first (the lower message number) was sent first.
C4_ArrivalOrder ==
  \A i, j \in 1..Len(sent) :
    (i < j /\ hs[sent[i][1]].thread = hs[sent[j][1]].thread)
      => sent[i][1] < sent[j][1]

\* C6: a non-terminated session's window field names an existing window,
\* except when a window of that name died on its own and no crash sweep has
\* dealt with it yet.
DiedUnswept(name) ==
  \E w \in Wins : ~windows[w].alive /\ windows[w].died /\ windows[w].name = name

C6_WindowExists ==
  \A t \in Threads :
    NonTerminated(registry[t])
      => (tmuxWindowExists(registry[t].window) \/ DiedUnswept(registry[t].window))

\* C5: every registry write of the bridge is an atomic read-modify-write.  A
\* handler's write (the save after creation, the save before injection)
\* leaves every other thread's entry as it is in the registry at that moment
\* and, before injection, keeps its own entry's window and assistant id; the
\* crash sweep's write changes nothing but the status of the entries it marks.
C5_AtomicUpdate ==
  [][ /\ \A m \in Msgs :
           (hs[m].pc \in {"creating", "pending"} /\ hs'[m].pc # hs[m].pc)
             => /\ \A u \in Threads \ {hs[m].thread} : registry'[u] = registry[u]
                /\ hs[m].pc = "pending"
                     => /\ registry'[hs[m].thread].window = registry[hs[m].thread].window
                        /\ registry'[hs[m].thread].sessionId = registry[hs[m].thread].sessionId
      /\ (task.kind = "health" /\ task'.kind = "none")
           => \A u \in Threads :
                \/ registry'[u] = registry[u]
                \/ registry'[u] = [registry[u] EXCEPT !.status = "terminated"]
    ]_vars

\* C7: a session's status changes only along starting -> active,
\* active -> idle, idle -> active and non-terminated -> terminated; a
\* terminated record leaves terminated only by handleMessage's creation or
\* resurrection, which writes status starting and the name of the window it
\* has just opened.
LifecycleEdge(a, b) ==
  \/ a = b
  \/ <<a, b>> \in {<<"starting", "active">>, <<"active", "idle">>, <<"idle", "active">>}
  \/ a \in {"starting", "active", "idle"} /\ b = "terminated"

C7_LifecycleEdges ==
  [][\A t \in Threads :
       \/ registry[t].status \in {"absent", "undef"}
       \/ LifecycleEdge(registry[t].status, registry'[t].status)
       \/ /\ registry[t].status = "terminated"
          /\ registry'[t].status = "starting"
          /\ \E m \in Msgs : /\ hs[m].thread = t
                             /\ hs[m].pc = "creating" /\ hs'[m].pc = "pending"
                             /\ registry'[t].window = NewName(hs[m].win)
                             /\ tmuxWindowExists(NewName(hs[m].win))
    ]_vars

\* C8: when handleMessage re-creates the session of a thread whose record is
\* terminated with a known assistant id and a non-provisional window, the
\* assistant is launched with --resume <that id> in the record's working
\* directory, and the record written has the same assistant id and working
\* directory, a provisional window name and status starting.
C8_ResurrectionRoundTrip ==
  [][\A m \in Msgs :
       LET t == hs[m].thread
           old == hs[m].sessions[t]
           name == NewName(hs[m].win)
       IN (/\ hs[m].pc = "creating" /\ hs'[m].pc = "pending"
           /\ ShouldResurrect(old) /\ old.workingDir # "none")
            => /\ \E w \in Wins : /\ windows'[w].alive /\ windows'[w].name = name
                                  /\ windows'[w].resume = old.sessionId
                                  /\ windows'[w].dir = old.workingDir
               /\ registry'[t].sessionId = old.sessionId
               /\ registry'[t].workingDir = old.workingDir
               /\ registry'[t].window = name
               /\ registry'[t].status = "starting"
    ]_vars

\* C9: a record that has an assistant id keeps it in every step, whatever
\* terminations and inbounds happen, and every window handleMessage opens for
\* a thread whose record has an assistant id is started with --resume and
\* that id.
C9_AssistantIdKept ==
  [][\A t \in Threads :
       registry[t].sessionId # 0
         => /\ registry'[t].sessionId = registry[t].sessionId
            /\ \A m \in Msgs :
                 (hs[m].pc = "none" /\ hs'[m].pc = "creating" /\ hs'[m].thread = t)
                   => hs'[m].resume = registry[t].sessionId
    ]_vars

\* C10: a crash sweep marks terminated every non-terminated session whose
\* window is absent and posts the crash warning to its thread, and leaves
\* every other session unchanged.
C10_CrashSweep ==
  [][(task.kind = "health" /\ task'.kind = "none")
       => \A t \in Threads :
            IF NonTerminated(registry[t]) /\ ~tmuxWindowExists(registry[t].window)
            THEN registry'[t].status = "terminated" /\ <<t, "crash">> \in posts'
            ELSE registry'[t] = registry[t]
    ]_vars

C12_NoSweepWhileProcessing ==
  [][ ~ ( /\ idleHs.pc = "pending"
          /\ idleTask.pc = "loaded"
          /\ idleHs.thread \in idleTask.todo
          /\ idleHs.thread \notin idleTask'.todo ) ]_vars

\* C13: a handleMessage call that needs to create a session (atLimit: the
\* thread has no live session when the call gets to decide) while the registry
\* holds maxConcurrent non-terminated sessions posts the limit notice in the
\* thread, creates no window, leaves the registry unchanged and sends nothing
C13_LimitRefusal ==
  [][ \A m \in Msgs :
        (hs'[m] # hs[m] /\ (hs[m].atLimit \/ hs'[m].atLimit)) =>
          /\ <<hs'[m].thread, "limit">> \in posts'
          /\ windows' = windows
          /\ registry' = registry
          /\ sent' = sent
    ]_vars

\* C14: with maxConcurrent = 0 in config.json no window is ever created by
\* the bridge and every inbound on a new thread gets the limit notice
C14_ZeroAllowsNone ==
  configMax = 0 =>
    /\ \A w \in Wins : windows[w].origin # "bridge"
    /\ \A m \in Msgs :
         (hs[m].pc \notin {"none", "done"} /\ hs[m].dir # "none") =>
           <<hs[m].thread, "limit">> \in posts

\* C15: a message, mention, reaction or slash command is processed (commands,
\* handleMessage, terminateSession) only if its user is in allowedUsers, and a
\* message of any other user gets the refusal
C15_OnlyAllowedUsers ==
  \A e \in handled :
    /\ e[3] = "processed" => e[2] \in allowedUsers
    /\ (e[1] = "message" /\ e[2] \notin allowedUsers) => e[3] = "refused"

\* C16: at most one bridge process per bot token is past acquireInstanceLock
\* at any time; a lock file naming a dead PID lets a new bridge start; an
\* exiting bridge removes the lock file only when it holds its own PID
C16_SingleInstance ==
  /\ Cardinality({p \in Procs : bridges[p] = "locked"}) <= 1
  /\ \A p \in Procs : bridges[p] = "refused" => lockFile # StalePid

C18_RejectWithInstructions ==
  [][ (permHs.pc = "pending" /\ permHs'.pc = "none" /\ permHs.text # <<>>) =>
        /\ permSent'[1] = permHs.text
        /\ (permSent'[2] = <<"3">> \o permHs.text) <=>
             ( /\ permHs.pendingPermission
               /\ ~isOptionSelection(permHs.text)
               /\ ~hasInstructions(permHs.text) )
        /\ permSent'[2] \in {permHs.text, <<"3">> \o permHs.text}
        /\ ~permReg'
    ]_vars

\* a free text answered a permission prompt and was sent as a rejection with
\* instructions
C18_Witness ==
  /\ permSent # <<>>
  /\ permSent[2] = <<"3">> \o permSent[1]
  /\ Len(permSent[1]) = MaxWords
  /\ ~permReg

\* C19: no input that the bridge injected (attachment path or message text)
\* is posted back to the thread as local input by the prompt-forwarding hook
C19_NoEchoOfChatInput ==
  \A e \in localInput : e[1] # "chat"

\* C20: waitForClaudeReady does not return while the capture it has taken
\* shows the trust prompt and the deadline has not passed; it returns on a
\* capture with a ready marker and no trust prompt, and on the deadline; the
\* first inbound is sent only after that, and it is always sent
C20_ReadyWait ==
  /\ [][ /\ (readyHs.pc = "polling" /\ readyHs'.pc # "polling") =>
              IF elapsed < CLAUDE_READY_TIMEOUT
              THEN "trust" \notin pane /\ "ready" \in pane /\ readyHs'.pc = "ready"
              ELSE readyHs'.pc = "timeout"
         /\ ( /\ readyHs.pc = "polling" /\ elapsed < CLAUDE_READY_TIMEOUT
              /\ "trust" \notin pane /\ "ready" \in pane
              /\ readyHs' # readyHs ) => readyHs'.pc = "ready"
         /\ readyHs'.pc = "sent" => readyHs.pc \in {"ready", "timeout", "sent"}
         /\ elapsed' < CLAUDE_READY_TIMEOUT + CLAUDE_READY_POLL
     ]_vars
  /\ <>(readyHs.pc = "sent")

\* the first inbound was sent after the wait had seen the trust prompt and
\* then a ready marker
C20_Witness ==
  /\ readyHs.pc = "sent"
  /\ readyHs.sawTrust
  /\ elapsed > 0 /\ elapsed < CLAUDE_READY_TIMEOUT

\* C21: once handleMessage is over, every attachment that was unsupported or
\* whose download failed is named in the annotation of the text that was
\* typed, and the downloaded attachments and the text have been typed
C21_SkipAndAnnotate ==
  attHs.pc \in {"done", "thrown"} =>
    LET skipped == {attHs.files[k] : k \in attHs.failed}
                   \cup {attHs.unsupportedFiles[k] :
                           k \in 1..Len(attHs.unsupportedFiles)}
        texts == {k \in 1..Len(attSent) : attSent[k][1] = "text"}
    IN  /\ \A p \in 1..Len(attHs.filePaths) :
             \E k \in 1..Len(attSent) : attSent[k] = <<"file", attHs.filePaths[p]>>
        /\ (attHs.text # "" \/ skipped # {}) =>
             \E k \in texts :
               /\ attSent[k][2].text = attHs.text
               /\ skipped \subseteq {attSent[k][2].names[n] :
                                       n \in 1..Len(attSent[k][2].names)}

C23_LiteralDirectives ==
  [][ Len(cmdEvents') > Len(cmdEvents) =>
        LET e == cmdEvents'[Len(cmdEvents')] IN
        (e.isThread /\ cmdReg[e.thread] # "absent" /\ e.text[1] # "hello") =>
          IF e.text = <<"!kill">>
          THEN cmdReg'[e.thread] = "terminated" /\ cmdInjected' = cmdInjected
          ELSE IF e.text = <<"!status">>
          THEN /\ cmdPosts' = Append(cmdPosts, <<e.thread, "info">>)
               /\ cmdInjected' = cmdInjected
          ELSE /\ cmdInjected' = Append(cmdInjected, <<e.thread, e.text>>)
               /\ cmdPosts' = cmdPosts
    ]_vars

\* C23: in a thread that has a session, a text that reads !kill or !status
\* once trimmed and put in lower case terminates the session (or reports it
\* terminated already) or posts the session info, and is not typed into the
\* window; every other text with a leading "!" is typed into the window, is
\* answered by no command reply, and terminates no session
C23_Directives ==
  [][ Len(cmdEvents') > Len(cmdEvents) =>
        LET e == cmdEvents'[Len(cmdEvents')] IN
        (e.isThread /\ cmdReg[e.thread] # "absent" /\ e.text[1] # "hello") =>
          IF e.text \in {<<"!kill">>, <<"!Kill">>}
          THEN /\ cmdReg' = [cmdReg EXCEPT ![e.thread] = "terminated"]
               /\ cmdInjected' = cmdInjected
               /\ Len(cmdPosts') = Len(cmdPosts) + 1
          ELSE IF e.text = <<"!status">>
          THEN /\ cmdPosts' = Append(cmdPosts, <<e.thread, "info">>)
               /\ cmdInjected' = cmdInjected
               /\ cmdReg' = cmdReg
          ELSE /\ cmdInjected' = Append(cmdInjected, <<e.thread, e.text>>)
               /\ cmdPosts' = cmdPosts
               /\ \A t \in Threads : cmdReg'[t] = "terminated" =>
                                       cmdReg[t] = "terminated"
    ]_vars

\* in a thread with a live session, !sessions was typed into the window and
\* then !Kill terminated the session
C23_Witness ==
  /\ Len(cmdEvents) = 2
  /\ cmdEvents[1].isThread /\ cmdEvents[2].isThread
  /\ cmdEvents[1].thread = cmdEvents[2].thread
  /\ cmdEvents[1].text = <<"!sessions">>
  /\ cmdEvents[2].text = <<"!Kill">>
  /\ cmdInjected = << <<cmdEvents[1].thread, <<"!sessions">> >> >>
  /\ cmdPosts = << <<cmdEvents[2].thread, "terminated">> >>
  /\ cmdReg[cmdEvents[2].thread] = "terminated"

\* C24: a direct message with a leading "!" outside every session thread
\* that is none of the commands is answered with a reply of the bridge and
\* is not typed into a window, and no session is created for it
C24_UnknownCommandWarned ==
  [][ Len(cmdEvents') > Len(cmdEvents) =>
        LET e == cmdEvents'[Len(cmdEvents')] IN
        ( /\ ~e.isThread \/ cmdReg[e.thread] = "absent"
          /\ e.text \in {<<"!foo">>, <<"!kill">>, <<"!Kill">>} ) =>
          /\ Len(cmdPosts') = Len(cmdPosts) + 1
          /\ cmdInjected' = cmdInjected
          /\ cmdReg' = cmdReg
    ]_vars

\* C25: once the first inbound of a session that the bridge created has been
\* typed into its window and the notify hook has handled the assistant's
\* first Stop event, and for as long as the window lives and the record is
\* not terminated, the record of the thread names the window by the first 8
\* characters of the assistant id and its status is active or idle
C25_RenamedAfterFirstStop ==
  \A w \in Wins :
    ( /\ windows[w].origin = "bridge" /\ windows[w].alive
      /\ windows[w].responded /\ windows[w].hook = "none"
      /\ \E k \in 1..Len(sent) : sent[k][2] = w
      /\ NonTerminated(registry[WindowThread(w)]) ) =>
      /\ registry[WindowThread(w)].window = SidName(windows[w].asst)
      /\ registry[WindowThread(w)].status \in {"active", "idle"}

\* C26: when handleMessage finds the window of the session gone as it types
\* the inbound (send-keys fails), the record of the thread is terminated
\* and the thread has its crash notice once the handler is over
C26_SendFailureIsCrash ==
  [][ \A m \in Msgs :
        (hs[m].pc = "pending" /\ hs'[m].pc = "done" /\ hs'[m].failed) =>
          /\ registry'[hs[m].thread].status = "terminated"
          /\ <<hs[m].thread, "crash">> \in posts'
    ]_vars

C28_SweepErrorsCaught ==
  errTask.pc # "exited"

\* C29: when the prompt-forwarding hook runs on a prompt while the pending
\* file holds the hash of a trimmed text, the prompt is posted to the thread
\* if and only if the trimmed prompt differs from that text, and the pending
\* file is gone after the run
C29_PendingHashRoundTrip ==
  [][ (typed # <<>> /\ typed' = Tail(typed) /\ pendingFile # NoFile) =>
        /\ pendingFile' = NoFile
        /\ IF pendingFile[2] = Trim(Head(typed)[2])
           THEN localInput' = localInput
           ELSE Head(typed) \in localInput'
    ]_vars

\* C30: when several records match the lookup of the notify hook, the
\* record it selects is active if any matching record is, and no matching
\* record of the same preference (active, or not active) was created later
C30_LookupPrefersActive ==
  \A w \in Wins :
    (windows[w].alive /\ windows[w].asst # 0 /\ Candidates(w) # {}) =>
      LET C == Candidates(w)
          t == LookupThread(w)
          IsActive(u) == registry[u].status = "active"
      IN  /\ t \in C
          /\ (\E u \in C : IsActive(u)) => IsActive(t)
          /\ \A u \in C : IsActive(u) = IsActive(t) =>
                            registry[u].created_at <= registry[t].created_at

\* the keys call c has sent so far, in order
KeysOf(c) ==
  LET own == SelectSeq(sendLog, LAMBDA e : e.call = c)
  IN [k \in 1..Len(own) |-> own[k].key]

\* the option a first word names: the digit, 1 for yes/y, 3 for no/n
OptionOf(word) ==
  IF Lower(word) \in {"yes", "y"} THEN 1
  ELSE IF Lower(word) \in {"no", "n"} THEN 3
  ELSE CHOOSE i \in 1..9 : word \in {DigitList[i], DottedList[i]}

\* the first words that name an option when instructions follow
OptionWords == Digits \cup DottedDigits \cup {"yes", "y", "no", "n"}

\* C31: a finished sendToWindow call on "<digit>[.] <instructions>",
\* "yes|y <instructions>" or "no|n <instructions>" has sent Down option - 1
\* times, then Tab, then the instructions as a literal, then Enter, and
\* nothing else; the digit is never sent as a key.
C31_OptionWithInstructions ==
  \A c \in Calls :
    LET call == sendHs[c] IN
    (/\ call.by = "message"
     /\ call.pc = "done"
     /\ Len(call.text) >= 2
     /\ Lower(call.text[1]) \in OptionWords)
    => LET option == OptionOf(call.text[1]) IN
       /\ KeysOf(c) = [i \in 1..(option - 1) |-> Key("Down")]
                        \o <<Key("Tab"), Lit(Tail(call.text)), Key("Enter")>>
       /\ \A k \in 1..Len(KeysOf(c)) : KeysOf(c)[k] # Key(DigitList[option])

\* a rejection with instructions has been typed: two Down keys came first
C31_Witness ==
  \E c \in Calls :
    /\ sendHs[c].pc = "done"
    /\ sendHs[c].text = <<"no", "fix">>
    /\ Len(KeysOf(c)) = 5

\* C32: a finished sendToWindow call on a single digit or on yes/y/no/n has
\* sent exactly one key, the digit (1 for yes/y, 3 for no/n), and no Enter; on
\* a text that is neither that nor an option with instructions it has sent the
\* text as a literal, then Enter, then Enter.
C32_SimpleOptionAndFreeText ==
  \A c \in Calls :
    LET call == sendHs[c]
        simple == /\ Len(call.text) = 1
                  /\ Lower(call.text[1]) \in Digits \cup {"yes", "y", "no", "n"}
        withInstructions == /\ Len(call.text) >= 2
                            /\ Lower(call.text[1]) \in OptionWords
    IN
    (call.by = "message" /\ call.pc = "done")
    => IF simple
       THEN KeysOf(c) = <<Key(DigitList[OptionOf(call.text[1])])>>
       ELSE IF withInstructions THEN TRUE
       ELSE KeysOf(c) = <<Lit(call.text), Key("Enter"), Key("Enter")>>

\* one call has typed the digit of "Yes" and the other a free text
C32_Witness ==
  \E c, d \in Calls :
    /\ sendHs[c].pc = "done" /\ sendHs[c].text = <<"Yes">>
    /\ sendHs[d].pc = "done" /\ sendHs[d].text = <<"2.">>
    /\ Len(KeysOf(d)) = 3

\* C37: the keys of one sendToWindow call are contiguous in the window: no
\* key of another message handler or of a reaction handler lies between two
\* keys of the call.
C37_ContiguousKeys ==
  \A i, j, k \in 1..Len(sendLog) :
    (/\ i < j /\ j < k
     /\ sendLog[i].call = sendLog[k].call
     /\ sendHs[sendLog[i].call].by = "message")
    => sendLog[j].call = sendLog[i].call

\* C38: the '1' of the trust auto-confirmation reaches the window before the
\* first inbound of the session is injected: it is never typed after that
\* inbound's keys, and it is not still to come once they have been typed.
C38_TrustKeyBeforeInbound ==
  /\ trustTimer # "after"
  /\ readyHs.pc = "sent" => trustTimer # "armed"

\* C35: when the creation function of a thread finishes (with a session, with
\* limit-reached or with an exception) the thread's in-flight entry is
\* removed and no handler is left waiting on it; every in-flight entry is
\* eventually removed and every waiting handler eventually resumes.
C35_LockAlwaysReleased ==
  /\ [][ \A m \in Msgs :
           (/\ hs[m].pc \in {"creating", "limit_say"}
            /\ hs'[m].pc \notin {"creating", "limit_say"})
           => /\ hs[m].thread \notin creatingSession'
              /\ \A n \in Msgs :
                   hs'[n].thread = hs[m].thread => hs'[n].pc # "waiting"
       ]_vars
  /\ \A t \in Threads : (t \in creatingSession) ~> (t \notin creatingSession)
  /\ \A m \in Msgs : (hs[m].pc = "waiting") ~> (hs[m].pc # "waiting")

\* a handler that waited has resumed after the creation it waited on threw
C35_Witness ==
  \E m \in Msgs :
    /\ hs[m].waitedOn # 0
    /\ hs[m].pc \notin {"none", "waiting"}
    /\ hs[hs[m].waitedOn].pc = "done"
    /\ hs[hs[m].waitedOn].failed
    /\ hs[m].thread \notin creatingSession

\* C36: a handler that waited on another handler's creation goes on to the
\* injection only if the registry holds a non-terminated session for its
\* thread, and it ends without an exception when it does not go on.
C36_WaiterRechecks ==
  [][ \A m \in Msgs :
        hs[m].pc = "resumed" =>
          /\ hs'[m].pc = "pending" => NonTerminated(registry[hs[m].thread])
          /\ hs'[m].pc = "done" => ~hs'[m].failed
    ]_vars

\* C33: a handleMessage call on an inbound with empty text and no attachment
\* returns at once: the registry record, the window's assistant and the
\* reactions are as before, and the call has written no pending-hash and
\* typed no key.
C33_EmptyInboundIsNoOp ==
  [][ \A m \in Inbounds :
        (/\ inHs[m].pc = "none"
         /\ inHs'[m].pc # "none"
         /\ inHs'[m].text = <<>> /\ inHs'[m].paths = 0 /\ ~inHs'[m].note)
        => /\ inReg' = inReg
           /\ asst' = asst
           /\ eyes' = eyes
           /\ inHs'[m].pc = "done"
           /\ inHs'[m].log = <<>>
    ]_vars

\* an empty inbound has been handled on a thread that still has no session,
\* and the inbound after it has created one
C33_Witness ==
  /\ inHs[1].pc = "done"
  /\ inHs[1].text = <<>> /\ inHs[1].paths = 0 /\ ~inHs[1].note
  /\ inHs[1].log = <<>>
  /\ 1 \notin eyes
  /\ inHs[2].pc = "done" /\ inHs[2].log # <<>>
  /\ inReg.status = "active"

\* C34: the effects of one handleMessage call are, in this order: for each
\* downloaded attachment the pending-hash of its path and then the path typed
\* as literal, Enter, Enter; then the eyes reaction and the message id stored
\* as lastMessageTs in the registry; then, unless the text is blank, the
\* pending-hash of the trimmed text and the text typed; nothing else.
C34_OrderOfEffects ==
  /\ [](\A m \in Inbounds :
          inHs[m].pc \in {"timer", "done"} /\ inHs[m].session # NoRecord =>
            LET h == inHs[m]
                n == h.paths
                log == h.log
                messageText == MessageText(h.text, h.note)
                typed_ == InTrim(messageText) # <<>>
            IN
            /\ Len(log) = 2 * n + 2 + (IF typed_ THEN 2 ELSE 0)
            /\ \A k \in 1..n :
                 /\ log[2 * k - 1].kind = "hash"
                 /\ log[2 * k - 1].v = Md5(InPaths[k])
                 /\ log[2 * k].kind = "keys"
                 /\ log[2 * k].v = <<Lit(InPaths[k]), Key("Enter"), Key("Enter")>>
            /\ log[2 * n + 1].kind = "eyes"
            /\ log[2 * n + 2].kind = "store"
            /\ typed_ => /\ log[2 * n + 3].kind = "hash"
                         /\ log[2 * n + 3].v = Md5(InTrim(messageText))
                         /\ log[2 * n + 4].kind = "keys")
  /\ [][ \A m \in Inbounds :
           (inHs[m].pc = "eyes" /\ inHs'[m].pc # "eyes") =>
             /\ m \in eyes'
             /\ inReg'.lastMessageTs = m
             /\ \A k \in 1..Len(inHs[m].log) : inHs[m].log[k].kind \in {"hash", "keys"}
       ]_vars

\* an inbound with two attachments and a text has been handled
C34_Witness ==
  \E m \in Inbounds :
    /\ inHs[m].pc = "done"
    /\ inHs[m].paths = 2
    /\ inHs[m].text = <<"fix">>
    /\ Len(inHs[m].log) = 8

\* C39: an inbound's text is rewritten to "3 <text>" only while a permission
\* prompt is awaiting its choice: once the choice has been delivered (by an
\* option text, a free text or a reaction) no later inbound is classified
\* with the flag set.
C39_FlagOnlyWhilePrompt ==
  [][ \A m \in Inbounds :
        (inHs[m].pc = "eyes" /\ inHs'[m].rewritten) => asst = "prompt"
    ]_vars

\* C40: every eyes reaction the bridge adds is eventually removed.
C40_EyesRemoved ==
  \A m \in Inbounds : (m \in eyes) ~> (m \notin eyes)

====
